---- MODULE Spec2Model ----
(***************************************************************************)
(* A model of the close_fds crate: the descriptor enumerator (FdIter with   *)
(* its listing and scan strategies), the keep-list helpers of util.rs and   *)
(* the bulk closer / close-on-exec setter built on them.                    *)
(*                                                                          *)
(* The process is a set of open descriptors with their close-on-exec flags. *)
(* The machine is scaled down: libc::c_int ranges over IntMin..IntMax with  *)
(* IntMax == FdMax + 1 (the kernel never hands out descriptor c_int::MAX),  *)
(* and the two limits of the scan bound (1024 and 65536 in fditer.rs) are   *)
(* scaled to the same range, so that a descriptor above the scan bound      *)
(* exists exactly as descriptors >= 65536 exist on a real machine.          *)
(***************************************************************************)
EXTENDS Integers, Sequences, FiniteSets, TLC

\* ------------------------------------------------------------------ bounds
\* Largest descriptor number the kernel hands out.
FdMax == 3
\* Longest keep-list passed by a caller.
MaxKeepLen == 2
\* Most directory entries one getdents() call puts into the dirent buffer.
DirentBufEntries == 2
\* Most descriptors that carry FD_CLOEXEC before the library is first called.
MaxPreFlagged == 1
\* Most iterators the caller creates one after the other.
MaxIters == 2
\* Longest keep-list handed to the helpers of util.rs on their own.
UtilKeepLen == 3

\* --------------------------------------------------- scaled program constants
\* fdlimit.max(1024): the smallest soft limit the scan trusts (scaled).
OPEN_MAX_FLOOR == 2
\* .min(65536): the largest soft limit the scan follows (scaled).
OPEN_MAX_CEIL == 3

\* nfds >= 100: the descriptor count from which nfds_to_maxfd gives up, scaled
\* so that, as in the program (2 * 99 - 1 < 1024 - 1), no descriptor that the
\* nfds probe can reach is above the smallest scan bound.
NFDS_GIVE_UP == 2

\* libc::c_int::MAX, libc::c_int::MIN and libc::c_uint::MAX of the scaled machine.
IntMax == FdMax + 1
IntMin == (0 - IntMax) - 1
UintMax == 2 * IntMax + 1

Fds == 0..FdMax
CInts == IntMin..IntMax

\* Option<c_int>
Some(v) == [some |-> TRUE, v |-> v]
None == [some |-> FALSE, v |-> 0]

\* `x as libc::c_uint`
AsUint(x) == IF x < 0 THEN x + UintMax + 1 ELSE x

\* The value a release build computes for an i32 result (two's complement wrap).
Wrap(x) == IF x > IntMax THEN x - (UintMax + 1)
           ELSE IF x < IntMin THEN x + (UintMax + 1) ELSE x

\* Whether an i32 result overflows (a debug build panics there).
Overflows(x) == x > IntMax \/ x < IntMin

Min(S) == CHOOSE x \in S : \A y \in S : x <= y
Max(S) == CHOOSE x \in S : \A y \in S : x >= y

\* Suffix s[i..] of a slice (1-based i), as Rust's &s[i-1..].
From(s, i) == SubSeq(s, i, Len(s))

Range(s) == {s[i] : i \in 1..Len(s)}

\* ------------------------------------------------------------ the process
(***************************************************************************)
(* A world w is the state one call works on: the open descriptors, those    *)
(* with FD_CLOEXEC set, the process-wide capability flags, the syscalls     *)
(* issued so far (log) and whether the call has panicked.                   *)
(* An environment e is what the call cannot change: the platform, the soft  *)
(* descriptor limit and what the kernel supports.                           *)
(* An oracle o fixes what the call cannot predict: the build profile, if    *)
(* the listing directory can be opened and trusted, how many entries a      *)
(* getdents() returns and which getdents() call (if any) fails.             *)
(***************************************************************************)
Entry(op, a, b, ok) == [op |-> op, a |-> a, b |-> b, ok |-> ok]

Logged(w, op, a, b, ok) == [w EXCEPT !.log = Append(@, Entry(op, a, b, ok))]

\* fcntl(fd, F_GETFD) >= 0
is_fd_valid(w, fd) == fd \in w.open

\* What other threads do while a call of the library runs: w.race holds the
\* descriptors they open and close at the one point of FdIter::next where the
\* order matters, between the descriptor count that get_maxfd_direct reads
\* and the probes that follow it.
NoRace == [opens |-> {}, closes |-> {}]
Raced(w) ==
    [w EXCEPT !.open = (@ \cup w.race.opens) \ w.race.closes,
              !.cx = @ \ w.race.closes,
              !.race = NoRace]

\* libc::close(fd) with its result unwrapped: EBADF aborts the operation. The
\* variant that C11 is checked against.
SysClose_or_abort(w, fd) ==
    IF fd \in w.open
    THEN [Logged(w, "close", fd, fd, TRUE) EXCEPT !.open = @ \ {fd}, !.cx = @ \ {fd}]
    ELSE [Logged(w, "close", fd, fd, FALSE) EXCEPT !.panic = TRUE]

\* libc::close(fd); the result is ignored by every caller.
SysClose(w, fd) ==
    [Logged(w, "close", fd, fd, fd \in w.open)
        EXCEPT !.open = @ \ {fd}, !.cx = @ \ {fd}]

\* closefrom(lowfd) of the BSDs.
SysClosefrom(w, lowfd) ==
    [Logged(w, "closefrom", lowfd, IntMax, TRUE)
        EXCEPT !.open = {d \in @ : d < lowfd}, !.cx = {d \in @ : d < lowfd}]

\* The kernel's close_range(first, last, flags): ENOSYS on a kernel without it
\* (EINVAL for an unknown flag), EINVAL when first > last.
KernelRangeOk(e, op, first, last) ==
    /\ IF op = "close_range" THEN e.kcr ELSE e.kcrc
    /\ first <= last

SysCloseRange(w, e, first, last) ==
    IF KernelRangeOk(e, "close_range", first, last)
    THEN [Logged(w, "close_range", first, last, TRUE)
            EXCEPT !.open = {d \in @ : d < first \/ d > last},
                   !.cx = {d \in @ : d < first \/ d > last}]
    ELSE Logged(w, "close_range", first, last, FALSE)

SysCloseRangeCloexec(w, e, first, last) ==
    IF KernelRangeOk(e, "cloexec_range", first, last)
    THEN [Logged(w, "cloexec_range", first, last, TRUE)
            EXCEPT !.cx = @ \cup {d \in w.open : d >= first /\ d <= last}]
    ELSE Logged(w, "cloexec_range", first, last, FALSE)

\* Whether the last syscall logged succeeded.
LastOk(w) == w.log[Len(w.log)].ok

\* open(): the lowest free descriptor below the soft limit, or EMFILE.
FreeFds(w, e) == {d \in Fds : d \notin w.open /\ d < e.fdlimit}

\* ------------------------------------------------------------- util.rs
\* fcntl(fd, F_GETFD), then fcntl(fd, F_SETFD) when it succeeded and the flag
\* is not set; neither result is reported.
set_cloexec(w, fd) ==
    LET Got(w1) == IF fd \in w.open /\ fd \notin w.cx
                   THEN [Logged(w1, "setfd", fd, fd, TRUE) EXCEPT !.cx = @ \cup {fd}]
                   ELSE w1 IN
    Got(Logged(w, "getfd", fd, fd, fd \in w.open))

RECURSIVE inspect_loop(_, _, _, _, _)
inspect_loop(keep_fds, i, max_keep_fd, last_fd, fds_sorted) ==
    IF i > Len(keep_fds) THEN [max |-> max_keep_fd, sorted |-> fds_sorted]
    ELSE LET fd == keep_fds[i] IN
         IF fd > max_keep_fd THEN inspect_loop(keep_fds, i + 1, fd, fd, fds_sorted)
         ELSE IF last_fd > fd THEN inspect_loop(keep_fds, i + 1, max_keep_fd, fd, FALSE)
         ELSE inspect_loop(keep_fds, i + 1, max_keep_fd, fd, fds_sorted)

\* inspect_keep_fds with -1 as the starting maximum and last value, as the
\* single-file lib.rs had it.
inspect_keep_fds_from_minus_one(keep_fds) == inspect_loop(keep_fds, 1, -1, -1, TRUE)

inspect_keep_fds(keep_fds) == inspect_loop(keep_fds, 1, IntMin, IntMin, TRUE)

\* keep_fds.iter().position(|&x| x >= fd), 1-based; 0 when there is none.
Position(keep_fds, fd) ==
    LET hits == {i \in 1..Len(keep_fds) : keep_fds[i] >= fd} IN
    IF hits = {} THEN 0 ELSE Min(hits)

\* The result is the simplified slice, the new minfd, and whether `*minfd += 1`
\* overflowed in a debug build (a panic).
RECURSIVE simplify_keep_fds(_, _, _, _)
simplify_keep_fds(keep_fds, fds_sorted, minfd, debug) ==
    IF ~fds_sorted \/ keep_fds = <<>>
    THEN [keep_fds |-> keep_fds, minfd |-> minfd, panic |-> FALSE]
    ELSE LET first == Head(keep_fds)
             rest == Tail(keep_fds) IN
         IF first > minfd
         THEN [keep_fds |-> keep_fds, minfd |-> minfd, panic |-> FALSE]
         ELSE IF first = minfd
         THEN IF Overflows(minfd + 1) /\ debug
              THEN [keep_fds |-> rest, minfd |-> minfd, panic |-> TRUE]
              ELSE simplify_keep_fds(rest, fds_sorted, Wrap(minfd + 1), debug)
         ELSE simplify_keep_fds(rest, fds_sorted, minfd, debug)

\* check_should_keep as it would be if the sorted lookup also skipped the
\* elements equal to the descriptor asked for.
check_should_keep_skips_equal(keep_fds, fd, fds_sorted) ==
    IF fds_sorted
    THEN LET index == Position(keep_fds, fd + 1)
             cur == IF index > 0 THEN From(keep_fds, index) ELSE keep_fds IN
         [keep_fds |-> cur, keep |-> (cur # <<>> /\ Head(cur) = fd)]
    ELSE [keep_fds |-> keep_fds, keep |-> (fd \in Range(keep_fds))]

\* The result is the advanced cursor and the answer.
check_should_keep(keep_fds, fd, fds_sorted) ==
    IF fds_sorted
    THEN LET index == Position(keep_fds, fd)
             cur == IF index > 0 THEN From(keep_fds, index) ELSE keep_fds IN
         [keep_fds |-> cur, keep |-> (cur # <<>> /\ Head(cur) = fd)]
    ELSE [keep_fds |-> keep_fds, keep |-> (fd \in Range(keep_fds))]

\* -------------------------------------------------- iterfds/dirfd.rs
\* Directory entry names are byte strings: "." is <<46>>, a digit d is 48 + d.
RECURSIVE FormatFd(_)
FormatFd(fd) == IF fd < 10 THEN <<48 + fd>>
                ELSE FormatFd(fd \div 10) \o <<48 + (fd % 10)>>

RECURSIVE parse_loop(_, _, _, _)
parse_loop(it, i, num, seen_any) ==
    IF i > Len(it) THEN (IF seen_any THEN Some(num) ELSE None)
    ELSE LET ch == it[i] IN
         IF ch >= 48 /\ ch <= 57
         THEN IF Overflows(num * 10) \/ Overflows(num * 10 + (ch - 48))
              THEN None
              ELSE parse_loop(it, i + 1, num * 10 + (ch - 48), TRUE)
         ELSE None

parse_int_bytes(it) == parse_loop(it, 1, 0, FALSE)

\* The kernel's descriptor directory, read by position as procfs and fdescfs
\* do: ".", "..", then one entry per open descriptor in ascending order.
\* Positions -2 and -1 are the dot entries, position p >= 0 is descriptor p.
DirEntryAt(w, pos) ==
    IF pos = -2 THEN [some |-> TRUE, name |-> <<46>>, next |-> -1]
    ELSE IF pos = -1 THEN [some |-> TRUE, name |-> <<46, 46>>, next |-> 0]
    ELSE LET left == {d \in w.open : d >= pos} IN
         IF left = {} THEN [some |-> FALSE, name |-> <<>>, next |-> pos]
         ELSE [some |-> TRUE, name |-> FormatFd(Min(left)), next |-> Min(left) + 1]

\* getdents(dirfd, buf): up to n entries from position pos on.
RECURSIVE getdents(_, _, _)
getdents(w, pos, n) ==
    LET x == DirEntryAt(w, pos) IN
    IF n = 0 \/ ~x.some THEN [ents |-> <<>>, pos |-> pos]
    ELSE LET r == getdents(w, x.next, n - 1) IN
         [ents |-> <<x.name>> \o r.ents, pos |-> r.pos]

NoDir == [minfd |-> 0, dirfd |-> -1, buf |-> <<>>, off |-> 0, dpos |-> -2, reads |-> 0]

\* DirFdIter::open: the result is the world and Some(DirFdIter) or None.
\* o.dir = "fail": open() fails (or WSL 1 is detected); "untrusted": FreeBSD's
\* /dev/fd is not an fdescfs, the descriptor is closed again.
DirFdIter_open(w, e, o, minfd) ==
    IF o.dir = "fail" \/ FreeFds(w, e) = {}
    THEN [w |-> w, some |-> FALSE, d |-> NoDir]
    ELSE LET dirfd == Min(FreeFds(w, e))
             w1 == [Logged(w, "open", dirfd, dirfd, TRUE)
                      EXCEPT !.open = @ \cup {dirfd}, !.cx = @ \cup {dirfd}] IN
         IF e.platform = "freebsd" /\ o.dir = "untrusted"
         THEN [w |-> SysClose(w1, dirfd), some |-> FALSE, d |-> NoDir]
         ELSE [w |-> w1, some |-> TRUE,
               d |-> [NoDir EXCEPT !.minfd = minfd, !.dirfd = dirfd]]

\* DirFdIter::next without the `fd != self.dirfd` test: the variant that C15
\* is checked against.
RECURSIVE DirFdIter_next_yields_handle(_, _, _)
DirFdIter_next_yields_handle(d, w, o) ==
    IF d.dirfd < 0 THEN [w |-> w, d |-> d, ok |-> TRUE, val |-> None]
    ELSE IF d.off >= Len(d.buf)
    THEN IF o.failAt = d.reads \/ d.dirfd \notin w.open
         THEN [w |-> w, d |-> [d EXCEPT !.reads = @ + 1], ok |-> FALSE, val |-> None]
         ELSE LET r == getdents(w, d.dpos, o.n) IN
              IF r.ents = <<>>
              THEN [w |-> SysClose(w, d.dirfd),
                    d |-> [d EXCEPT !.dirfd = -1, !.reads = @ + 1],
                    ok |-> TRUE, val |-> None]
              ELSE DirFdIter_next_yields_handle(
                       [d EXCEPT !.buf = r.ents, !.off = 0, !.dpos = r.pos,
                                 !.reads = @ + 1], w, o)
    ELSE LET fd == parse_int_bytes(d.buf[d.off + 1])
             d1 == [d EXCEPT !.off = @ + 1] IN
         IF fd.some /\ fd.v >= d.minfd
         THEN [w |-> w, d |-> d1, ok |-> TRUE, val |-> fd]
         ELSE DirFdIter_next_yields_handle(d1, w, o)

\* DirFdIter::next: ok = FALSE is Err(()), otherwise val is the Option.
\* getdents() fails when the oracle says so, and with EBADF when the handle
\* has been closed under the iterator.
RECURSIVE DirFdIter_next(_, _, _)
DirFdIter_next(d, w, o) ==
    IF d.dirfd < 0 THEN [w |-> w, d |-> d, ok |-> TRUE, val |-> None]
    ELSE IF d.off >= Len(d.buf)
    THEN IF o.failAt = d.reads \/ d.dirfd \notin w.open
         THEN [w |-> w, d |-> [d EXCEPT !.reads = @ + 1], ok |-> FALSE, val |-> None]
         ELSE LET r == getdents(w, d.dpos, o.n) IN
              IF r.ents = <<>>
              THEN [w |-> SysClose(w, d.dirfd),
                    d |-> [d EXCEPT !.dirfd = -1, !.reads = @ + 1],
                    ok |-> TRUE, val |-> None]
              ELSE DirFdIter_next([d EXCEPT !.buf = r.ents, !.off = 0,
                                            !.dpos = r.pos, !.reads = @ + 1], w, o)
    ELSE LET fd == parse_int_bytes(d.buf[d.off + 1])
             d1 == [d EXCEPT !.off = @ + 1] IN
         IF fd.some /\ fd.v >= d.minfd /\ fd.v # d.dirfd
         THEN [w |-> w, d |-> d1, ok |-> TRUE, val |-> fd]
         ELSE DirFdIter_next(d1, w, o)

\* The entries of the dirent buffer not consumed yet that parse as a number.
BufferedFds(d) ==
    {i \in (d.off + 1)..Len(d.buf) : parse_int_bytes(d.buf[i]).some}

\* DirFdIter::size_hint that counts the entry of its own handle too: the
\* variant that C16 is checked against.
DirFdIter_size_hint_counts_handle(d) ==
    IF d.dirfd < 0 THEN [low |-> 0, high |-> Some(0), panic |-> FALSE]
    ELSE [low |-> Cardinality(BufferedFds(d)), high |-> Some(IntMax), panic |-> FALSE]

\* DirFdIter::size_hint: (low, Some(high)); panic is its debug_assert!(fd >=
\* self.minfd) failing in a debug build.
DirFdIter_size_hint(d) ==
    IF d.dirfd < 0 THEN [low |-> 0, high |-> Some(0), panic |-> FALSE]
    ELSE [low |-> Cardinality({i \in BufferedFds(d) :
                                  parse_int_bytes(d.buf[i]).v # d.dirfd}),
          high |-> Some(IntMax),
          panic |-> \E i \in BufferedFds(d) : parse_int_bytes(d.buf[i]).v < d.minfd]

\* Drop for DirFdIter without its close(): the variant that C39 is checked
\* against.
DirFdIter_drop_leaks(d, w) == w

\* Drop for DirFdIter
DirFdIter_drop(d, w) == IF d.dirfd >= 0 THEN SysClose(w, d.dirfd) ELSE w

\* ------------------------------------------------- iterfds/fditer.rs
\* The platforms modelled, by the cfg attributes that select the code.
Platforms == {"linux", "freebsd"}
HasNfds(e) == e.platform = "freebsd"

\* The loop of nfds_to_maxfd over 0..(nfds * 3), as the single-file lib.rs
\* had it.
RECURSIVE nfds_loop_times_three(_, _, _, _)
nfds_loop_times_three(w, nfds, fd, nfds_found) ==
    IF fd >= nfds * 3 THEN None
    ELSE IF is_fd_valid(w, fd)
    THEN IF nfds_found + 1 >= nfds THEN Some(fd)
         ELSE nfds_loop_times_three(w, nfds, fd + 1, nfds_found + 1)
    ELSE nfds_loop_times_three(w, nfds, fd + 1, nfds_found)

\* FdIter::nfds_to_maxfd
RECURSIVE nfds_loop(_, _, _, _)
nfds_loop(w, nfds, fd, nfds_found) ==
    IF fd >= nfds * 2 THEN None
    ELSE IF is_fd_valid(w, fd)
    THEN IF nfds_found + 1 >= nfds THEN Some(fd)
         ELSE nfds_loop(w, nfds, fd + 1, nfds_found + 1)
    ELSE nfds_loop(w, nfds, fd + 1, nfds_found)

\* The number of is_fd_valid() calls the loop of nfds_to_maxfd makes from fd on.
RECURSIVE nfds_checks(_, _, _, _)
nfds_checks(w, nfds, fd, nfds_found) ==
    IF fd >= nfds * 2 THEN 0
    ELSE IF is_fd_valid(w, fd)
    THEN IF nfds_found + 1 >= nfds THEN 1
         ELSE 1 + nfds_checks(w, nfds, fd + 1, nfds_found + 1)
    ELSE 1 + nfds_checks(w, nfds, fd + 1, nfds_found)

\* nfds_to_maxfd as it would be if "no open descriptors" were reported as -1,
\* the value that stands for "not computed yet".
nfds_to_maxfd_minus_one(w, nfds) ==
    IF nfds = 0 THEN Some(-1)
    ELSE IF nfds < 0 THEN None
    ELSE IF nfds >= NFDS_GIVE_UP THEN None
    ELSE nfds_loop(w, nfds, 0, 0)

nfds_to_maxfd(w, nfds) ==
    IF nfds = 0 THEN Some(0)
    ELSE IF nfds < 0 THEN None
    ELSE IF nfds >= NFDS_GIVE_UP THEN None
    ELSE nfds_loop(w, nfds, 0, 0)

\* The scan bound of the single-file lib.rs: the limit minus one when it lies
\* in [1024, 65536], else 65536.
ClampedLimit_or_ceiling(fdlimit) ==
    IF fdlimit <= OPEN_MAX_CEIL /\ fdlimit >= OPEN_MAX_FLOOR THEN fdlimit - 1
    ELSE OPEN_MAX_CEIL

\* sysconf(_SC_OPEN_MAX) clamped: fdlimit.max(1024).min(65536) - 1
ClampedLimit(fdlimit) ==
    LET lo == IF fdlimit > OPEN_MAX_FLOOR THEN fdlimit ELSE OPEN_MAX_FLOOR IN
    (IF lo < OPEN_MAX_CEIL THEN lo ELSE OPEN_MAX_CEIL) - 1

\* FdIter::get_maxfd_direct; the sysctl reports the number of open descriptors.
get_maxfd_direct(it, w, e) ==
    LET nfds == Cardinality(w.open)
        viaNfds == nfds_to_maxfd(Raced(w), nfds) IN
    IF HasNfds(e) /\ ~it.skip_nfds /\ viaNfds.some THEN viaNfds.v
    ELSE ClampedLimit(e.fdlimit)

\* FdIter::get_maxfd
get_maxfd(it, w, e) ==
    IF it.maxfd < 0 THEN [it EXCEPT !.maxfd = get_maxfd_direct(it, w, e)] ELSE it

\* The maxfd loop of FdIter::next without its `self.curfd += 1`: the variant
\* that C4 is checked against.
scan_loop_no_advance(it, w) ==
    LET hits == {fd \in it.curfd..it.maxfd : it.possible \/ is_fd_valid(w, fd)} IN
    IF hits = {} THEN [it |-> it, val |-> None]
    ELSE [it |-> [it EXCEPT !.curfd = Min(hits)], val |-> Some(Min(hits))]

\* The maxfd loop of FdIter::next.
RECURSIVE scan_loop(_, _)
scan_loop(it, w) ==
    IF it.curfd <= it.maxfd
    THEN LET fd == it.curfd
             it1 == [it EXCEPT !.curfd = @ + 1] IN
         IF it.possible \/ is_fd_valid(w, fd)
         THEN [it |-> it1, val |-> Some(fd)]
         ELSE scan_loop(it1, w)
    ELSE [it |-> it, val |-> None]

\* FdIterBuilder: possible, skip_nfds (set by threadsafe()), dirfd (allow_filesystem()).
Builder(possible, threadsafe, fs) ==
    [possible |-> possible, skip_nfds |-> threadsafe, dirfd |-> fs]

\* FdIterBuilder::iter_from. maxfd starts as "not determined yet", the value
\* get_maxfd tests with `self.maxfd < 0`.
iter_from(b, w, e, o, minfd0) ==
    LET minfd == IF minfd0 < 0 THEN 0 ELSE minfd0
        r == IF b.dirfd THEN DirFdIter_open(w, e, o, minfd)
             ELSE [w |-> w, some |-> FALSE, d |-> NoDir] IN
    [w |-> r.w,
     it |-> [has_dir |-> r.some, dir |-> r.d, curfd |-> minfd,
             possible |-> b.possible, maxfd |-> -1, skip_nfds |-> b.skip_nfds]]

\* FdIter::next without the `self.curfd = fd + 1` of its listing arm: the
\* variant that C14 is checked against.
FdIter_next_keeps_curfd(it, w, e, o) ==
    LET Scan(w1, s) == [w |-> w1, it |-> s.it, val |-> s.val]
        Fallback(w1) ==
            Scan(Raced(w1),
                 scan_loop(get_maxfd([it EXCEPT !.has_dir = FALSE, !.dir = NoDir],
                                     w1, e), Raced(w1)))
        Listed(r) ==
            IF it.has_dir /\ r.ok /\ r.val.some
            THEN [w |-> r.w, it |-> [it EXCEPT !.dir = r.d], val |-> r.val]
            ELSE IF it.has_dir /\ r.ok
            THEN [w |-> r.w, it |-> [it EXCEPT !.dir = r.d], val |-> None]
            ELSE Fallback(IF it.has_dir THEN DirFdIter_drop(r.d, r.w) ELSE w) IN
    Listed(DirFdIter_next(it.dir, w, o))

\* FdIter::next: the result is the world, the iterator and the Option yielded.
\* A debug build panics when the listing yields a descriptor below curfd.
FdIter_next(it, w, e, o) ==
    LET Scan(w1, s) == [w |-> w1, it |-> s.it, val |-> s.val]
        Fallback(w1) ==
            Scan(Raced(w1),
                 scan_loop(get_maxfd([it EXCEPT !.has_dir = FALSE, !.dir = NoDir],
                                     w1, e), Raced(w1)))
        Listed(r) ==
            IF it.has_dir /\ r.ok /\ r.val.some
            THEN [w |-> IF o.debug /\ r.val.v < it.curfd
                        THEN [r.w EXCEPT !.panic = TRUE] ELSE r.w,
                  it |-> [it EXCEPT !.dir = r.d, !.curfd = r.val.v + 1],
                  val |-> r.val]
            ELSE IF it.has_dir /\ r.ok
            THEN [w |-> r.w, it |-> [it EXCEPT !.dir = r.d], val |-> None]
            ELSE Fallback(IF it.has_dir THEN DirFdIter_drop(r.d, r.w) ELSE w) IN
    Listed(DirFdIter_next(it.dir, w, o))

\* usize::saturating_sub
SatSub(a, b) == IF a > b THEN a - b ELSE 0

\* FdIter::size_hint that does not delegate to an exhausted listing's answer
\* but reports "unknown" while a DirFdIter exists: the variant that C17 is
\* checked against.
FdIter_size_hint_unknown(it) ==
    IF it.has_dir /\ it.dir.dirfd >= 0 THEN DirFdIter_size_hint(it.dir)
    ELSE IF it.has_dir \/ it.maxfd < 0
    THEN [low |-> 0, high |-> Some(IntMax), panic |-> FALSE]
    ELSE [low |-> IF it.possible THEN SatSub(it.maxfd + 1, it.curfd) ELSE 0,
          high |-> Some(SatSub(it.maxfd + 1, it.curfd)), panic |-> FALSE]

\* FdIter::size_hint
FdIter_size_hint(it) ==
    IF it.has_dir THEN DirFdIter_size_hint(it.dir)
    ELSE IF it.maxfd >= 0
    THEN [low |-> IF it.possible THEN SatSub(it.maxfd + 1, it.curfd) ELSE 0,
          high |-> Some(SatSub(it.maxfd + 1, it.curfd)), panic |-> FALSE]
    ELSE [low |-> 0, high |-> Some(IntMax), panic |-> FALSE]

\* The values that next() yields until it returns None, at most n of them.
RECURSIVE Drain(_, _, _, _, _)
Drain(it, w, e, o, n) ==
    LET Step(r) == IF r.val.some
                   THEN <<r.val.v>> \o Drain(r.it, r.w, e, o, n - 1)
                   ELSE <<>> IN
    IF n = 0 THEN <<>> ELSE Step(FdIter_next(it, w, e, o))

\* FdIter::count with `get_maxfd() - curfd` for its closed form: the variant
\* that C18 is checked against.
FdIter_count_off_by_one(it, w, e, o) ==
    IF ~it.has_dir /\ it.possible
    THEN SatSub(get_maxfd(it, w, e).maxfd, it.curfd)
    ELSE Len(Drain(it, w, e, o, IntMax + 1))

\* FdIter::count of fditer/mod.rs: the closed form when there is no listing
\* and the iterator is in possible mode, `while self.next().is_some()`
\* otherwise. (iterfds/fditer.rs does not override count: Iterator::count
\* is the same loop.)
FdIter_count(it, w, e, o) ==
    IF ~it.has_dir /\ it.possible
    THEN SatSub(get_maxfd(it, w, e).maxfd + 1, it.curfd)
    ELSE Len(Drain(it, w, e, o, IntMax + 1))

\* FdIter::min is self.next(); FdIter::max is self.last(), the last value of
\* Iterator::fold over next().
FdIter_min(it, w, e, o) == FdIter_next(it, w, e, o).val
FdIter_max(it, w, e, o) ==
    LET Last(r) == IF r = <<>> THEN None ELSE Some(r[Len(r)]) IN
    Last(Drain(it, w, e, o, IntMax + 1))

\* Drop for FdIter
FdIter_drop(it, w) == IF it.has_dir THEN DirFdIter_drop(it.dir, w) ELSE w

\* ------------------------------------------------- closefds/close.rs
HasClosefrom(e) == e.platform = "freebsd"

\* A fallible call returns the world and whether it returned Ok(()).
Ok(w) == [w |-> w, ok |-> TRUE]
Err(w) == [w |-> w, ok |-> FALSE]
Panic(w) == [w |-> [w EXCEPT !.panic = TRUE], ok |-> FALSE]

\* check_has_close_range that probes again whenever the cached answer is not
\* "present": the variant that C12 is checked against.
check_has_close_range_reprobe(w, e, o) ==
    IF w.hasCR = 1 THEN [w |-> w, ok |-> TRUE]
    ELSE IF ~o.sysctl \/ ~e.kcr THEN [w |-> [w EXCEPT !.hasCR = 0], ok |-> FALSE]
    ELSE [w |-> [w EXCEPT !.hasCR = 1], ok |-> TRUE]

\* check_has_close_range (FreeBSD): HAS_CLOSE_RANGE is 1 (present), 0 (absent)
\* or 2 (not probed yet); the probe reads kern.osreldate.
check_has_close_range(w, e, o) ==
    IF w.hasCR = 1 THEN Ok(w)
    ELSE IF w.hasCR = 0 THEN Err(w)
    ELSE IF ~o.sysctl \/ ~e.kcr THEN Err([w EXCEPT !.hasCR = 0])
    ELSE Ok([w EXCEPT !.hasCR = 1])

\* try_close_range without the store to MAY_HAVE_CLOSE_RANGE on failure.
try_close_range_keeps_flag(w, e, o, minfd, maxfd) ==
    IF o.debug /\ minfd > maxfd THEN Panic(w)
    ELSE IF e.platform = "linux"
    THEN LET Done(w1) == IF LastOk(w1) THEN Ok(w1) ELSE Err(w1) IN
         Done(SysCloseRange(w, e, minfd, maxfd))
    ELSE IF o.debug /\ ~check_has_close_range(w, e, o).ok THEN Panic(w)
    ELSE IF ~e.kcr THEN Panic(Logged(w, "SIGSYS", minfd, maxfd, FALSE))
    ELSE LET Done(w1) == IF LastOk(w1) THEN Ok(w1) ELSE Err(w1) IN
         Done(SysCloseRange(w, e, minfd, maxfd))

\* try_close_range(minfd, maxfd), both c_uint. On Linux a failure clears
\* MAY_HAVE_CLOSE_RANGE; on FreeBSD a kernel that lacks the syscall kills the
\* process with SIGSYS.
try_close_range(w, e, o, minfd, maxfd) ==
    IF o.debug /\ minfd > maxfd THEN Panic(w)
    ELSE IF e.platform = "linux"
    THEN LET Done(w1) == IF LastOk(w1) THEN Ok(w1)
                         ELSE Err([w1 EXCEPT !.mayCR = FALSE]) IN
         Done(SysCloseRange(w, e, minfd, maxfd))
    ELSE IF o.debug /\ ~check_has_close_range(w, e, o).ok THEN Panic(w)
    ELSE IF ~e.kcr THEN Panic(Logged(w, "SIGSYS", minfd, maxfd, FALSE))
    ELSE LET Done(w1) == IF LastOk(w1) THEN Ok(w1) ELSE Err(w1) IN
         Done(SysCloseRange(w, e, minfd, maxfd))

\* ----------------------------------------------- closefds/cloexec.rs
\* set_cloexec_range(minfd, maxfd), both c_uint (Linux only).
set_cloexec_range(w, e, o, minfd, maxfd) ==
    IF o.debug /\ minfd > maxfd THEN Panic(w)
    ELSE LET Done(w1) == IF LastOk(w1) THEN Ok(w1)
                         ELSE Err([w1 EXCEPT !.mayCRC = FALSE]) IN
         Done(SysCloseRangeCloexec(w, e, minfd, maxfd))

\* --------------------------------------------------- util.rs, apply_range
\* The closure passed to apply_range: kind "close" is
\* |low, high| try_close_range(low as c_uint, high as c_uint), kind "cloexec"
\* is |low, high| set_cloexec_range(low as c_uint, high as c_uint).
\* Kind "test" is the closure of test_apply_range, which records (low, high);
\* the call numbered o.errAt (from 0) is the one that returns Err(()).
RangeCalls(w) == {i \in 1..Len(w.log) : w.log[i].op = "range"}
range_func(kind, w, e, o, low, high) ==
    IF kind = "close" THEN try_close_range(w, e, o, AsUint(low), AsUint(high))
    ELSE IF kind = "cloexec" THEN set_cloexec_range(w, e, o, AsUint(low), AsUint(high))
    ELSE IF Cardinality(RangeCalls(w)) = o.errAt
    THEN Err(Logged(w, "range", low, high, FALSE))
    ELSE Ok(Logged(w, "range", low, high, TRUE))

\* The for loop of apply_range as it would be without the `?` on the call in
\* its body: a failure is dropped and the loop goes on.
RECURSIVE apply_gaps_ignores_err(_, _, _, _, _, _)
apply_gaps_ignores_err(kind, w, e, o, keep_fds, i) ==
    IF i >= Len(keep_fds) THEN Ok(w)
    ELSE LET low == keep_fds[i]
             high == keep_fds[i + 1] IN
         IF o.debug /\ (high < low \/ Overflows(high - low)) THEN Panic(w)
         ELSE IF Wrap(high - low) >= 2
         THEN IF o.debug /\ (Overflows(low + 1) \/ Overflows(high - 1)) THEN Panic(w)
              ELSE apply_gaps_ignores_err(
                       kind, range_func(kind, w, e, o, Wrap(low + 1), Wrap(high - 1)).w,
                       e, o, keep_fds, i + 1)
         ELSE apply_gaps_ignores_err(kind, w, e, o, keep_fds, i + 1)

\* The for loop of apply_range over the pairs (keep_fds[i], keep_fds[i + 1]).
RECURSIVE apply_gaps(_, _, _, _, _, _)
apply_gaps(kind, w, e, o, keep_fds, i) ==
    IF i >= Len(keep_fds) THEN Ok(w)
    ELSE LET low == keep_fds[i]
             high == keep_fds[i + 1] IN
         IF o.debug /\ (high < low \/ Overflows(high - low)) THEN Panic(w)
         ELSE IF Wrap(high - low) >= 2
         THEN IF o.debug /\ (Overflows(low + 1) \/ Overflows(high - 1)) THEN Panic(w)
              ELSE LET Then(r) ==
                           IF r.ok THEN apply_gaps(kind, r.w, e, o, keep_fds, i + 1)
                           ELSE r IN
                   Then(range_func(kind, w, e, o, Wrap(low + 1), Wrap(high - 1)))
         ELSE apply_gaps(kind, w, e, o, keep_fds, i + 1)

apply_range(kind, w, e, o, minfd, keep_fds0) ==
    LET index == Position(keep_fds0, minfd)
        keep_fds == From(keep_fds0, index)
        last == keep_fds[Len(keep_fds)]
        Above(r2) ==
            IF ~r2.ok THEN r2
            ELSE IF o.debug /\ Overflows(last + 1) THEN Panic(r2.w)
            ELSE range_func(kind, r2.w, e, o, Wrap(last + 1), IntMax)
        Gaps(r1) ==
            IF ~r1.ok THEN r1 ELSE Above(apply_gaps(kind, r1.w, e, o, keep_fds, 1)) IN
    IF index = 0 THEN range_func(kind, w, e, o, minfd, IntMax)
    ELSE Gaps(IF keep_fds[1] > minfd
              THEN range_func(kind, w, e, o, minfd, keep_fds[1] - 1)
              ELSE Ok(w))

\* --------------------------------------------- closefds/close.rs, close_fds
\* close_fds_shortcut without its `max_keep_fd < minfd` branches: a single
\* call over everything from minfd is never tried.
close_fds_shortcut_gaps_only(w, e, o, minfd, keep_fds, max_keep_fd, fds_sorted) ==
    IF e.platform = "linux" /\ ~w.mayCR THEN Err(w)
    ELSE IF fds_sorted /\ keep_fds # <<>>
    THEN LET Probed(c) ==
                 IF ~c.ok THEN c
                 ELSE apply_range("close", c.w, e, o, minfd, keep_fds) IN
         Probed(IF e.platform = "freebsd"
                THEN check_has_close_range(w, e, o) ELSE Ok(w))
    ELSE Err(w)

\* close_fds_shortcut without `check_has_close_range()?` before the ranged
\* close on FreeBSD.
close_fds_shortcut_unprobed(w, e, o, minfd, keep_fds, max_keep_fd, fds_sorted) ==
    IF HasClosefrom(e) /\ max_keep_fd < minfd THEN Ok(SysClosefrom(w, minfd))
    ELSE IF e.platform = "linux" /\ ~w.mayCR THEN Err(w)
    ELSE IF e.platform = "linux" /\ max_keep_fd < minfd
    THEN try_close_range(w, e, o, AsUint(minfd), UintMax)
    ELSE IF fds_sorted
    THEN IF o.debug /\ keep_fds = <<>> THEN Panic(w)
         ELSE apply_range("close", w, e, o, minfd, keep_fds)
    ELSE Err(w)

close_fds_shortcut(w, e, o, minfd, keep_fds, max_keep_fd, fds_sorted) ==
    IF HasClosefrom(e) /\ max_keep_fd < minfd THEN Ok(SysClosefrom(w, minfd))
    ELSE IF e.platform = "linux" /\ ~w.mayCR THEN Err(w)
    ELSE IF e.platform = "linux" /\ max_keep_fd < minfd
    THEN try_close_range(w, e, o, AsUint(minfd), UintMax)
    ELSE IF fds_sorted
    THEN IF o.debug /\ keep_fds = <<>> THEN Panic(w)
         ELSE LET Probed(c) ==
                      IF ~c.ok THEN c
                      ELSE apply_range("close", c.w, e, o, minfd, keep_fds) IN
              Probed(IF e.platform = "freebsd"
                     THEN check_has_close_range(w, e, o) ELSE Ok(w))
    ELSE Err(w)

\* `for fd in fditer { debug_assert!(fd > max_keep_fd); libc::close(fd); }`
RECURSIVE close_rest(_, _, _, _, _)
close_rest(it, w, e, o, max_keep_fd) ==
    LET Body(n) ==
            IF n.w.panic THEN n.w
            ELSE IF ~n.val.some THEN FdIter_drop(n.it, n.w)
            ELSE IF o.debug /\ ~(n.val.v > max_keep_fd)
            THEN [n.w EXCEPT !.panic = TRUE]
            ELSE close_rest(n.it, SysClose(n.w, n.val.v), e, o, max_keep_fd) IN
    IF w.panic THEN w ELSE Body(FdIter_next(it, w, e, o))

\* The loop of close_fds without its `fd > max_keep_fd` branch: every
\* descriptor is looked up in the keep-list and closed on its own.
RECURSIVE close_loop_always_looks_up(_, _, _, _, _, _, _)
close_loop_always_looks_up(it, w, e, o, keep_fds, max_keep_fd, fds_sorted) ==
    LET Kept(n, k) ==
            close_loop_always_looks_up(
                n.it, IF k.keep THEN n.w ELSE SysClose(n.w, n.val.v), e, o,
                k.keep_fds, max_keep_fd, fds_sorted)
        Body(n) ==
            IF n.w.panic THEN n.w
            ELSE IF ~n.val.some THEN FdIter_drop(n.it, n.w)
            ELSE Kept(n, check_should_keep(keep_fds, n.val.v, fds_sorted)) IN
    Body(FdIter_next(it, w, e, o))

\* The `while let Some(fd) = fditer.next()` loop of close_fds.
RECURSIVE close_loop(_, _, _, _, _, _, _)
close_loop(it, w, e, o, keep_fds, max_keep_fd, fds_sorted) ==
    LET Bulk(n, t) ==
            IF t.w.panic THEN t.w
            ELSE IF t.ok THEN FdIter_drop(n.it, t.w)
            ELSE close_rest(n.it, SysClose(t.w, n.val.v), e, o, max_keep_fd)
        Kept(n, k) ==
            close_loop(n.it, IF k.keep THEN n.w ELSE SysClose(n.w, n.val.v), e, o,
                       k.keep_fds, max_keep_fd, fds_sorted)
        Body(n) ==
            IF n.w.panic THEN n.w
            ELSE IF ~n.val.some THEN FdIter_drop(n.it, n.w)
            ELSE IF n.val.v > max_keep_fd
            THEN IF HasClosefrom(e)
                 THEN SysClosefrom(FdIter_drop(n.it, n.w), n.val.v)
                 ELSE Bulk(n, IF n.w.mayCR
                              THEN try_close_range(n.w, e, o, AsUint(n.val.v), UintMax)
                              ELSE Err(n.w))
            ELSE Kept(n, check_should_keep(keep_fds, n.val.v, fds_sorted)) IN
    Body(FdIter_next(it, w, e, o))

\* close_fds as it would be if the loop started at the threshold given
\* instead of the simplified one.
close_fds_from_given_minfd(w, e, o, minfd0, kf, itbuilder) ==
    LET b == [itbuilder EXCEPT !.possible = TRUE,
                  !.skip_nfds = IF HasClosefrom(e) THEN TRUE ELSE @]
        Loop(s, c) == close_loop(c.it, c.w, e, o, s.keep_fds, kf.max, kf.sorted)
        Fallback(s, sc) ==
            IF sc.w.panic \/ sc.ok THEN sc.w
            ELSE Loop(s, iter_from(b, sc.w, e, o, minfd0))
        Simplified(s) ==
            IF s.panic THEN [w EXCEPT !.panic = TRUE]
            ELSE Fallback(s, close_fds_shortcut(w, e, o, s.minfd, s.keep_fds,
                                                kf.max, kf.sorted)) IN
    Simplified(simplify_keep_fds(kf.fds, kf.sorted, minfd0, o.debug))

\* close::close_fds(minfd, keep_fds, itbuilder): the world it leaves.
close_fds(w, e, o, minfd0, kf, itbuilder) ==
    LET b == [itbuilder EXCEPT !.possible = TRUE,
                  !.skip_nfds = IF HasClosefrom(e) THEN TRUE ELSE @]
        Loop(s, c) == close_loop(c.it, c.w, e, o, s.keep_fds, kf.max, kf.sorted)
        Fallback(s, sc) ==
            IF sc.w.panic \/ sc.ok THEN sc.w
            ELSE Loop(s, iter_from(b, sc.w, e, o, s.minfd))
        Simplified(s) ==
            IF s.panic THEN [w EXCEPT !.panic = TRUE]
            ELSE Fallback(s, close_fds_shortcut(w, e, o, s.minfd, s.keep_fds,
                                                kf.max, kf.sorted)) IN
    Simplified(simplify_keep_fds(kf.fds, kf.sorted, minfd0, o.debug))

\* ------------------------------------ closefds/cloexec.rs, set_fds_cloexec
set_cloexec_shortcut(w, e, o, minfd, keep_fds, max_keep_fd, fds_sorted) ==
    IF ~w.mayCRC THEN Err(w)
    ELSE IF max_keep_fd < minfd
    THEN set_cloexec_range(w, e, o, AsUint(minfd), UintMax)
    ELSE IF fds_sorted THEN apply_range("cloexec", w, e, o, minfd, keep_fds)
    ELSE Err(w)

\* `for fd in fditer { util::set_cloexec(fd); }`
RECURSIVE cloexec_rest_loop(_, _, _, _)
cloexec_rest_loop(it, w, e, o) ==
    LET Body(n) ==
            IF n.w.panic THEN n.w
            ELSE IF ~n.val.some THEN FdIter_drop(n.it, n.w)
            ELSE cloexec_rest_loop(n.it, set_cloexec(n.w, n.val.v), e, o) IN
    Body(FdIter_next(it, w, e, o))

set_cloexec_rest(fd, it, w, e, o) ==
    LET Bulk(t) ==
            IF t.w.panic THEN t.w
            ELSE IF t.ok THEN FdIter_drop(it, t.w)
            ELSE cloexec_rest_loop(it, set_cloexec(t.w, fd), e, o) IN
    Bulk(IF e.platform = "linux" /\ w.mayCRC
         THEN set_cloexec_range(w, e, o, AsUint(fd), UintMax)
         ELSE Err(w))

\* The `while let Some(fd) = fditer.next()` loop of set_fds_cloexec.
RECURSIVE cloexec_loop(_, _, _, _, _, _, _)
cloexec_loop(it, w, e, o, keep_fds, max_keep_fd, fds_sorted) ==
    LET Kept(n, k) ==
            cloexec_loop(n.it, IF k.keep THEN n.w ELSE set_cloexec(n.w, n.val.v),
                         e, o, k.keep_fds, max_keep_fd, fds_sorted)
        Body(n) ==
            IF n.w.panic THEN n.w
            ELSE IF ~n.val.some THEN FdIter_drop(n.it, n.w)
            ELSE IF n.val.v > max_keep_fd
            THEN set_cloexec_rest(n.val.v, n.it, n.w, e, o)
            ELSE Kept(n, check_should_keep(keep_fds, n.val.v, fds_sorted)) IN
    Body(FdIter_next(it, w, e, o))

\* cloexec::set_fds_cloexec(minfd, keep_fds, itbuilder): the world it leaves.
set_fds_cloexec(w, e, o, minfd0, kf, itbuilder) ==
    LET b == [itbuilder EXCEPT !.possible = TRUE]
        Loop(s, c) == cloexec_loop(c.it, c.w, e, o, s.keep_fds, kf.max, kf.sorted)
        Fallback(s, sc) ==
            IF sc.w.panic \/ (e.platform = "linux" /\ sc.ok) THEN sc.w
            ELSE Loop(s, iter_from(b, sc.w, e, o, s.minfd))
        Simplified(s) ==
            IF s.panic THEN [w EXCEPT !.panic = TRUE]
            ELSE Fallback(s, IF e.platform = "linux"
                             THEN set_cloexec_shortcut(w, e, o, s.minfd, s.keep_fds,
                                                       kf.max, kf.sorted)
                             ELSE Err(w)) IN
    Simplified(simplify_keep_fds(kf.fds, kf.sorted, minfd0, o.debug))

\* ------------------------------------------------------- closefds/mod.rs
\* KeepFds::empty, KeepFds::new and KeepFds::new_sorted
KeepFds_empty == [fds |-> <<>>, max |-> -1, sorted |-> TRUE]
KeepFds_new(fds) ==
    LET r == inspect_keep_fds(fds) IN [fds |-> fds, max |-> r.max, sorted |-> r.sorted]
KeepFds_new_sorted(fds) ==
    [fds |-> fds, max |-> IF fds = <<>> THEN -1 ELSE fds[Len(fds)], sorted |-> TRUE]

\* CloseFdsBuilder: keep_fds() or keep_fds_sorted(), threadsafe(),
\* allow_filesystem(); a new builder has KeepFds::empty() and FdIterBuilder::new().
CloseFdsBuilder(fds, as_sorted, threadsafe, fs) ==
    [keep_fds |-> IF as_sorted THEN KeepFds_new_sorted(fds) ELSE KeepFds_new(fds),
     it |-> Builder(FALSE, threadsafe, fs)]

\* CloseFdsBuilder::closefrom without its `cmp::max(minfd, 0)`: the variant
\* that C7 is checked against.
closefrom_unclamped(b, w, e, o, minfd) ==
    close_fds(w, e, o, minfd, b.keep_fds, b.it)

\* CloseFdsBuilder::closefrom and CloseFdsBuilder::cloexecfrom
closefrom(b, w, e, o, minfd) ==
    close_fds(w, e, o, IF minfd > 0 THEN minfd ELSE 0, b.keep_fds, b.it)
cloexecfrom(b, w, e, o, minfd) ==
    set_fds_cloexec(w, e, o, IF minfd > 0 THEN minfd ELSE 0, b.keep_fds, b.it)

\* ================================================================ the state
\* The state variables:
\* w: the process (descriptor table, close-on-exec flags, the library's
\*    capability flags, the syscalls of the operation in progress, panicked);
\* e: the platform, the kernel's features and the soft descriptor limit;
\* call: the last closefrom()/cloexecfrom() call, its arguments and the
\*    process state it started from;
\* iter: the FdIter the caller holds (its builder, the process state it was
\*    created in, how many iterators there have been, the descriptors opened
\*    after an iterator was exhausted, whether next() returned a descriptor
\*    after it had returned None, how many of its values came from the
\*    listing, the descriptors other threads opened and closed since it was
\*    created); yielded: what it has returned so far.
VARIABLES w, e, call, iter, yielded
vars == <<w, e, call, iter, yielded>>

\* Linux kernels: no close_range(), close_range() (5.9), CLOSE_RANGE_CLOEXEC
\* (5.11). FreeBSD kernels: before and after 12.2.
Envs ==
    {x \in [platform : Platforms, fdlimit : {OPEN_MAX_FLOOR, FdMax + 1},
            kcr : BOOLEAN, kcrc : BOOLEAN] :
        /\ x.kcrc => x.kcr
        /\ x.platform = "freebsd" => ~x.kcrc}

\* What the filesystem does to one operation: whether the descriptor
\* directory opens, and the getdents() call that fails (-1: none).
FailAts == {-1, 0, 2}
Oracle(debug, dir, failAt) ==
    [debug |-> debug, dir |-> dir, n |-> DirentBufEntries, failAt |-> failAt,
     sysctl |-> TRUE]
DirOutcomes(env) ==
    {"ok", "fail"} \cup (IF env.platform = "freebsd" THEN {"untrusted"} ELSE {})
Oracles(env, fs, debug) ==
    IF fs
    THEN {Oracle(debug, dir, f) : <<dir, f>> \in
            {x \in DirOutcomes(env) \X FailAts : x[1] = "ok" \/ x[2] = -1}}
    ELSE {Oracle(debug, "ok", -1)}

MinFds == -1..IntMax
RECURSIVE SeqsUpTo(_, _)
SeqsUpTo(S, n) ==
    IF n = 0 THEN {<<>>}
    ELSE LET shorter == SeqsUpTo(S, n - 1) IN
         shorter \cup {Append(q, x) : q \in {y \in shorter : Len(y) = n - 1}, x \in S}
KeepLists == SeqsUpTo(0..IntMax, MaxKeepLen)
IsSorted(fds) == \A i \in 1..(Len(fds) - 1) : fds[i] <= fds[i + 1]

NoIter == [live |-> FALSE, ended |-> FALSE, minfd |-> 0,
           b |-> [possible |-> FALSE, skip_nfds |-> FALSE, dirfd |-> FALSE],
           it |-> [has_dir |-> FALSE, dir |-> NoDir, curfd |-> 0,
                   possible |-> FALSE, maxfd |-> -1, skip_nfds |-> FALSE],
           o |-> Oracle(FALSE, "ok", -1), pre |-> {}, gen |-> 0, late |-> {},
           refilled |-> FALSE, nlisted |-> 0, opened |-> {}, closed |-> {}]
NoCall == [op |-> "none", minfd |-> 0, fds |-> <<>>, as_sorted |-> FALSE,
           threadsafe |-> FALSE, fs |-> FALSE, o |-> Oracle(FALSE, "ok", -1),
           rep |-> FALSE, pre |-> {}]

InitWith(envs, preFlagged) ==
    /\ e \in envs
    /\ \E open \in SUBSET Fds :
       \E cx \in {c \in SUBSET open : Cardinality(c) <= preFlagged} :
          w = [open |-> open, cx |-> cx, mayCR |-> TRUE, mayCRC |-> TRUE,
               hasCR |-> 2, log |-> <<>>, panic |-> FALSE, race |-> NoRace]
    /\ call = NoCall
    /\ iter = NoIter
    /\ yielded = <<>>

\* Closing never looks at CLOSE_RANGE_CLOEXEC, flagging never at plain
\* close_range(): each is explored on the kernels that differ for it.
EnvsClose == {x \in Envs : x.platform = "linux" => x.kcrc = x.kcr}
EnvsCloexec == {x \in Envs : x.kcr = (x.platform = "freebsd" \/ x.kcrc)}
Init == InitWith(EnvsClose, 0)
InitCloexec == InitWith(EnvsCloexec, MaxPreFlagged)

\* The process state an operation starts from: the log holds the syscalls of
\* one operation.
Fresh(world) == [world EXCEPT !.log = <<>>]

\* An operation run by a debug build and by a release build differ only when
\* an assertion or an overflow check fires, so the debug build is explored
\* only where it panics.
Run(op, b, world, env, o, minfd) ==
    IF op = "close" THEN closefrom(b, world, env, o, minfd)
    ELSE cloexecfrom(b, world, env, o, minfd)

Invoke(op, minfd, fds, as_sorted, threadsafe, fs, o) ==
    /\ \E w1 \in {Run(op, CloseFdsBuilder(fds, as_sorted, threadsafe, fs),
                       Fresh(w), e, o, minfd)} :
          /\ o.debug => w1.panic
          /\ w' = w1
    /\ call' = [op |-> op, minfd |-> minfd, fds |-> fds, as_sorted |-> as_sorted,
                threadsafe |-> threadsafe, fs |-> fs, o |-> o, rep |-> FALSE,
                pre |-> {Fresh(w)}]
    /\ UNCHANGED <<e, iter, yielded>>

\* CloseFdsBuilder::new().keep_fds(fds) or .keep_fds_sorted(fds),
\* .allow_filesystem(fs), .closefrom(minfd); close_open_fds(minfd, fds) is the
\* case as_sorted = FALSE, fs = TRUE.
CloseFromAt(minfd) ==
    /\ call.op = "none" /\ ~iter.live /\ iter.gen = 0 /\ ~w.panic
    /\ \E fds \in KeepLists, as_sorted \in BOOLEAN, fs \in BOOLEAN,
          debug \in BOOLEAN :
          /\ as_sorted => IsSorted(fds)
          /\ \E o \in Oracles(e, fs, debug) :
                Invoke("close", minfd, fds, as_sorted, FALSE, fs, o)
CloseFrom == \E minfd \in MinFds : CloseFromAt(minfd)

\* The same builder with .threadsafe(threadsafe) and .cloexecfrom(minfd);
\* set_fds_cloexec and set_fds_cloexec_threadsafe are the cases
\* as_sorted = FALSE, fs = TRUE. Only FreeBSD's builder has a skip_nfds field.
CloexecFromAt(minfd) ==
    /\ call.op = "none" /\ ~iter.live /\ iter.gen = 0 /\ ~w.panic
    /\ \E fds \in KeepLists, as_sorted \in BOOLEAN, fs \in BOOLEAN,
          debug \in BOOLEAN,
          threadsafe \in (IF HasNfds(e) THEN BOOLEAN ELSE {FALSE}) :
          /\ as_sorted => IsSorted(fds)
          /\ \E o \in Oracles(e, fs, debug) :
                Invoke("cloexec", minfd, fds, as_sorted, threadsafe, fs, o)
CloexecFrom == \E minfd \in MinFds : CloexecFromAt(minfd)

\* The caller makes the same call a second time.
Repeat ==
    /\ call.op = "close" /\ ~call.rep /\ ~w.panic
    /\ LET b == CloseFdsBuilder(call.fds, call.as_sorted, call.threadsafe, call.fs) IN
       w' = Run(call.op, b, Fresh(w), e, call.o, call.minfd)
    /\ call' = [call EXCEPT !.rep = TRUE, !.pre = {Fresh(w)}]
    /\ UNCHANGED <<e, iter, yielded>>

Next == CloseFrom \/ Repeat
Spec == Init /\ [][Next]_vars

NextCloexec == CloexecFrom
SpecCloexec == InitCloexec /\ [][NextCloexec]_vars

\* ------------------------------------------------------ the iterator's API
\* The iterator never issues close_range(), so one kernel is explored.
EnvsIter == {x \in Envs : ~x.kcr}
InitIter == InitWith(EnvsIter, 0)

\* FdIterBuilder::new().possible(..).threadsafe(..).allow_filesystem(..)
\* .iter_from(minfd); iter_open_fds, iter_open_fds_threadsafe and
\* iter_possible_fds are the cases with the other options at their defaults.
IterFromAt(minfd) ==
    /\ call.op = "none" /\ ~iter.live /\ iter.gen < MaxIters /\ ~w.panic
    /\ \E possible \in BOOLEAN, fs \in BOOLEAN,
          threadsafe \in (IF HasNfds(e) THEN BOOLEAN ELSE {FALSE}) :
       \E o \in Oracles(e, fs, FALSE) :
          \E b \in {Builder(possible, threadsafe, fs)} :
          \E r \in {iter_from(b, Fresh(w), e, o, minfd)} :
          /\ w' = r.w
          /\ iter' = [iter EXCEPT !.live = TRUE, !.ended = FALSE, !.minfd = minfd,
                                  !.b = b, !.it = r.it, !.o = o,
                                  !.pre = {Fresh(w)}, !.gen = @ + 1,
                                  !.nlisted = 0, !.opened = {}, !.closed = {}]
          /\ yielded' = <<>>
    /\ UNCHANGED <<e, call>>
IterFrom == \E minfd \in MinFds : IterFromAt(minfd)

\* FdIter::next, also called again after it has returned None.
IterNext ==
    /\ iter.live /\ ~w.panic
    /\ \E debug \in BOOLEAN :
          \E r \in {FdIter_next(iter.it, w, e, [iter.o EXCEPT !.debug = debug])} :
          /\ debug => r.w.panic
          /\ w' = r.w
          /\ iter' = [iter EXCEPT !.it = r.it, !.ended = @ \/ ~r.val.some,
                                  !.refilled = @ \/ (iter.ended /\ r.val.some),
                                  !.nlisted = IF r.val.some /\ r.it.has_dir
                                               THEN @ + 1 ELSE @]
          /\ yielded' = IF r.val.some THEN Append(yielded, r.val.v) ELSE yielded
    /\ UNCHANGED <<e, call>>

\* The caller drops the iterator.
IterDrop ==
    /\ iter.live /\ ~w.panic
    /\ w' = FdIter_drop(iter.it, w)
    /\ iter' = [NoIter EXCEPT !.gen = iter.gen, !.late = iter.late]
    /\ yielded' = <<>>
    /\ UNCHANGED <<e, call>>

\* The caller opens a descriptor (open, dup2, fcntl(F_DUPFD)) once an iterator
\* is exhausted.
EnvOpen ==
    /\ iter.live /\ iter.ended /\ iter.late = {} /\ ~w.panic
    /\ \E fd \in FreeFds(w, e) :
          /\ w' = [w EXCEPT !.open = @ \cup {fd}]
          /\ iter' = [iter EXCEPT !.late = {fd}]
    /\ UNCHANGED <<e, call, yielded>>

NextIter == IterFrom \/ IterNext \/ IterDrop \/ EnvOpen
SpecIter == InitIter /\ [][NextIter]_vars

\* ------------------------------------------- calls with a negative minfd
NegMinFds == {IntMin, -1}
InitClamp == InitWith(Envs, 0)
NegCloseFrom == \E minfd \in NegMinFds : CloseFromAt(minfd)
NegCloexecFrom == \E minfd \in NegMinFds : CloexecFromAt(minfd)
NegIterFrom == \E minfd \in NegMinFds : IterFromAt(minfd)
NextClamp == NegCloseFrom \/ NegCloexecFrom \/ NegIterFrom \/ IterNext \/ IterDrop
SpecClamp == InitClamp /\ [][NextClamp]_vars

\* =============================================================== the claims
\* The process state the last call started from, its threshold after the
\* clamp every operation applies, and the descriptors of its keep-list.
Pre == CHOOSE x \in call.pre : TRUE
Lo == IF call.minfd > 0 THEN call.minfd ELSE 0
K == Range(call.fds)
\* The same for the iterator the caller holds.
IPre == CHOOSE x \in iter.pre : TRUE
ILo == IF iter.minfd > 0 THEN iter.minfd ELSE 0
\* The descriptor state of a process: its open descriptors and their flags.
Final(x) == <<x.open, x.cx>>
\* close_open_fds(t, K) is CloseFdsBuilder::new().keep_fds(K).closefrom(t).
IsCloseOpenFds == call.op = "close" /\ ~call.as_sorted /\ call.fs /\ ~call.threadsafe
\* set_fds_cloexec(t, K) and set_fds_cloexec_threadsafe(t, K).
IsSetFdsCloexec == call.op = "cloexec" /\ ~call.as_sorted /\ call.fs

\* C1: when close_open_fds(t, K) returns, the descriptors open at or above
\* max(t, 0) are exactly those of K that were open before the call.
C1_OnlyKeptStayOpen ==
    (IsCloseOpenFds /\ ~w.panic) =>
        {d \in w.open : d >= Lo} = {d \in Pre.open : d >= Lo /\ d \in K}

\* C2: a call that returns has neither closed nor flagged a descriptor that
\* is below max(t, 0) or in K, whichever path it took.
C2_FrameBelowAndKept ==
    ((IsCloseOpenFds \/ IsSetFdsCloexec) /\ ~w.panic) =>
        \A d \in Pre.open :
            (d < Lo \/ d \in K) => d \in w.open /\ (d \in w.cx <=> d \in Pre.cx)

\* C3: when set_fds_cloexec(t, K) or its thread-safe variant returns, every
\* open descriptor at or above max(t, 0) outside K is flagged, the descriptors
\* of K have the flag they had, and the same descriptors are open.
C3_CloexecPostcondition ==
    (IsSetFdsCloexec /\ ~w.panic) =>
        /\ \A d \in w.open : (d >= Lo /\ d \notin K) => d \in w.cx
        /\ \A d \in K : d \in w.cx <=> d \in Pre.cx
        /\ w.open = Pre.open

\* C4: the values one FdIter has yielded are strictly ascending (so without
\* duplicates) and none is below max(minfd, 0).
C4_YieldedAscending ==
    /\ \A i \in 1..Len(yielded) : yielded[i] >= ILo
    /\ \A i \in 1..(Len(yielded) - 1) : yielded[i] < yielded[i + 1]

\* An iterator whose listing failed at its third getdents() has yielded two
\* descriptors from the listing and a third from the scan.
C4_Witness ==
    /\ iter.live /\ iter.b.dirfd /\ ~iter.it.has_dir /\ iter.o.failAt = 2
    /\ Len(yielded) = 3

\* C5: an iterator that has returned None returns None ever after, and an
\* iterator created after descriptors were opened yields those at or above
\* its threshold.
C5_FusedAndNewIteratorSees ==
    /\ ~iter.refilled
    /\ (iter.live /\ iter.ended /\ ~w.panic /\ iter.late \subseteq IPre.open) =>
          \A d \in iter.late : d >= ILo => d \in Range(yielded)

\* C6: an exhausted open-mode iterator, with no descriptor opened or closed
\* since it was created, has yielded exactly the descriptors that are open at
\* or above max(minfd, 0).
C6_OpenModeExact ==
    (iter.live /\ iter.ended /\ ~iter.b.possible /\ ~w.panic
        /\ iter.late \subseteq IPre.open) =>
        Range(yielded) = {d \in IPre.open : d >= ILo}

\* The first n values an iterator yields, fewer when it ends before.
RECURSIVE Take(_, _, _, _, _)
Take(it, world, env, o, n) ==
    LET Step(r) == IF r.val.some
                   THEN <<r.val.v>> \o Take(r.it, r.w, env, o, n - 1)
                   ELSE <<>> IN
    IF n = 0 THEN <<>> ELSE Step(FdIter_next(it, world, env, o))
\* What the iterator the caller holds would have yielded by now, and whether
\* it would have ended, had it been created with threshold 0.
TakeFromZero(n) ==
    LET Started(r) == Take(r.it, r.w, e, iter.o, n) IN
    Started(iter_from(iter.b, IPre, e, iter.o, 0))

\* C7: a call with a negative threshold leaves the process exactly as the
\* same call with threshold 0 does, and an iterator created with a negative
\* threshold yields no negative value and the sequence that one created with
\* threshold 0 yields.
C7_NegativeIsZero ==
    /\ (call.op # "none" /\ call.minfd < 0) =>
          w = Run(call.op,
                  CloseFdsBuilder(call.fds, call.as_sorted, call.threadsafe, call.fs),
                  Pre, e, call.o, 0)
    /\ (iter.live /\ iter.minfd < 0) =>
          /\ \A i \in 1..Len(yielded) : yielded[i] >= 0
          /\ yielded = TakeFromZero(Len(yielded))
          /\ iter.ended => Len(TakeFromZero(Len(yielded) + 1)) = Len(yielded)

\* close_open_fds(-1, K) has returned and has closed descriptors.
C7_Witness ==
    /\ IsCloseOpenFds /\ call.minfd < 0 /\ ~w.panic
    /\ w.open # Pre.open /\ w.open # {}

\* The last call made again from the state it started from, with another
\* keep-list or through another builder method.
WithKeepList(fds, as_sorted) ==
    Run(call.op, CloseFdsBuilder(fds, as_sorted, call.threadsafe, call.fs),
        Pre, e, call.o, call.minfd)
\* The last call made again from the state it started from, with the bulk
\* capability known to be absent or not, and the listing allowed or not.
WithPath(bulk, fs) ==
    Run(call.op, CloseFdsBuilder(call.fds, call.as_sorted, call.threadsafe, fs),
        [Pre EXCEPT !.mayCR = bulk, !.mayCRC = bulk, !.hasCR = IF bulk THEN 2 ELSE 0],
        e, Oracle(FALSE, "ok", -1), call.minfd)

\* C8: a call leaves the descriptors and flags that the same call leaves
\* with the ascending list of the same descriptors, passed through
\* keep_fds() or through keep_fds_sorted().
C8_OrderInsensitive ==
    (call.op # "none" /\ ~call.rep /\ ~w.panic) =>
        \A fds \in KeepLists, as_sorted \in BOOLEAN :
            (Range(fds) = K /\ IsSorted(fds) /\ ~WithKeepList(fds, as_sorted).panic)
                => Final(WithKeepList(fds, as_sorted)) = Final(w)

\* C9: a call leaves the descriptors and flags that the same call leaves
\* when the bulk capability is disabled or not and the listing is disabled
\* or not.
C9_PathInsensitive ==
    (call.op # "none" /\ ~call.rep /\ ~w.panic) =>
        \A bulk \in BOOLEAN, fs \in BOOLEAN :
            ~WithPath(bulk, fs).panic => Final(WithPath(bulk, fs)) = Final(w)

\* C10: a second close_open_fds(t, K) with the same arguments closes
\* nothing and leaves the capability flag as the first call left it.
C10_Idempotent ==
    (IsCloseOpenFds /\ call.rep /\ ~w.panic) =>
        /\ w.open = Pre.open
        /\ w.mayCR = Pre.mayCR /\ w.hasCR = Pre.hasCR

\* ------------------------------------- calls that reach the per-descriptor loop
\* Thresholds below and above the lowest descriptors, for both operations.
PerFdMinFds == {0, 2}
PerFdCloseFrom == \E minfd \in PerFdMinFds : CloseFromAt(minfd)
PerFdCloexecFrom == \E minfd \in PerFdMinFds : CloexecFromAt(minfd)
NextPerFd == PerFdCloseFrom \/ PerFdCloexecFrom
SpecPerFd == InitClamp /\ [][NextPerFd]_vars

\* The per-descriptor actions of the last call that failed: close(fd) or
\* fcntl(fd, F_GETFD) on a descriptor that is not open.
PerFdFailures ==
    {i \in 1..Len(w.log) : w.log[i].op \in {"close", "getfd"} /\ ~w.log[i].ok}

\* C11: a call in which per-descriptor actions failed returns normally, and
\* every descriptor open above a failed one, outside the keep-list and within
\* the enumerator's bound, has been closed (or flagged) all the same.
C11_PerFdFailureIgnored ==
    (call.op # "none" /\ ~call.o.debug) =>
        /\ ~w.panic
        /\ \A i \in PerFdFailures : \A d \in Pre.open :
              (d > w.log[i].a /\ d >= Lo /\ d \notin K /\ d <= ClampedLimit(e.fdlimit))
                  => IF call.op = "close" THEN d \notin w.open ELSE d \in w.cx

\* A close on an invalid descriptor failed and a later descriptor was closed.
C11_Witness ==
    /\ call.op = "close" /\ ~call.o.debug /\ ~w.panic
    /\ \E i \in PerFdFailures : \E j \in (i + 1)..Len(w.log) :
          w.log[j].op = "close" /\ w.log[j].ok /\ w.log[j].a \in Pre.open

\* ------------------------------------------ any number of calls in one process
\* The keep-lists of the calls: none, one descriptor, two in either order.
FlagsKeepLists == {<<>>, <<1>>, <<1, 3>>, <<3, 1>>}

\* A closefrom() or cloexecfrom() call, whatever was called before; the
\* kern.osreldate sysctl of FreeBSD's probe may fail.
FlagsCall(op) ==
    /\ ~w.panic
    /\ \E minfd \in PerFdMinFds, fds \in FlagsKeepLists, as_sorted \in BOOLEAN,
          fs \in BOOLEAN, sysctl \in (IF e.platform = "freebsd" THEN BOOLEAN ELSE {TRUE}) :
          /\ as_sorted => IsSorted(fds)
          /\ w' = Run(op, CloseFdsBuilder(fds, as_sorted, FALSE, fs), Fresh(w), e,
                      [Oracle(FALSE, "ok", -1) EXCEPT !.sysctl = sysctl], minfd)
    /\ call' = [call EXCEPT !.op = op]
    /\ UNCHANGED <<e, iter, yielded>>
FlagsClose == FlagsCall("close")
FlagsCloexec == FlagsCall("cloexec")

\* The probe alone, as close_fds_shortcut runs it before a ranged close.
FlagsProbe ==
    /\ ~w.panic /\ e.platform = "freebsd"
    /\ \E sysctl \in BOOLEAN :
          w' = check_has_close_range(Fresh(w), e,
                                     [Oracle(FALSE, "ok", -1) EXCEPT !.sysctl = sysctl]).w
    /\ call' = [call EXCEPT !.op = "probe"]
    /\ UNCHANGED <<e, iter, yielded>>

\* The caller opens a descriptor between two calls.
FlagsOpen ==
    /\ ~w.panic /\ FreeFds(w, e) # {}
    /\ w' = [Fresh(w) EXCEPT !.open = @ \cup {Min(FreeFds(w, e))}]
    /\ call' = [call EXCEPT !.op = "open"]
    /\ UNCHANGED <<e, iter, yielded>>

\* The soft limit does not bear on the flags: one value is explored.
EnvsFlags == {x \in Envs : x.fdlimit = FdMax + 1}
InitFlags == InitWith(EnvsFlags, 0)
NextFlags == FlagsClose \/ FlagsCloexec \/ FlagsProbe \/ FlagsOpen
SpecFlags == InitFlags /\ [][NextFlags]_vars

\* C12: each capability flag only moves from unknown to available or
\* unavailable, or from available to unavailable: a flag that is unavailable
\* stays so and none returns to unknown, whatever is called.
C12_FlagsMonotonic ==
    [][/\ w.mayCR' => w.mayCR
       /\ w.mayCRC' => w.mayCRC
       /\ w.hasCR = 0 => w.hasCR' = 0
       /\ w.hasCR = 1 => w.hasCR' \in {0, 1}
       /\ w.hasCR' \in {0, 1, 2}]_vars

\* A close call went through its per-descriptor loop without trying
\* close_range(), the flag being unavailable already, and the flag is still so.
C12_Witness ==
    /\ call.op = "close" /\ e.platform = "linux" /\ ~w.mayCR
    /\ \E i \in 1..Len(w.log) : w.log[i].op = "close" /\ w.log[i].ok
    /\ \A i \in 1..Len(w.log) : w.log[i].op # "close_range"

\* The close() calls that the last operation issued on descriptor h after
\* log entry i.
ClosesAfter(i, h) ==
    {j \in (i + 1)..Len(w.log) : w.log[j].op = "close" /\ w.log[j].a = h}

\* C13: a listing handle that an operation opened is closed by exactly one
\* close() on its number, and that close() finds it open; stated for the
\* operations whose listing never fails, where the loop closes no number the
\* listing did not yield.
C13_HandleClosedOnce ==
    (call.op # "none" /\ ~w.panic /\ call.o.dir = "ok" /\ call.o.failAt = -1) =>
        \A i \in 1..Len(w.log) :
            w.log[i].op = "open" =>
                /\ Cardinality(ClosesAfter(i, w.log[i].a)) = 1
                /\ \A j \in ClosesAfter(i, w.log[i].a) : w.log[j].ok

\* The iterator the caller holds opened a listing, a read of it failed, and
\* it went over to the scan.
FellBack ==
    /\ iter.live /\ ~iter.it.has_dir /\ iter.o.dir = "ok"
    /\ \E i \in 1..Len(w.log) : w.log[i].op = "open"
\* Where the scan had to start, and the values it has yielded.
ScanStart == IF iter.nlisted = 0 THEN ILo ELSE yielded[iter.nlisted] + 1
Scanned == {yielded[i] : i \in (iter.nlisted + 1)..Len(yielded)}

HandleNumbers == {w.log[i].a : i \in {j \in 1..Len(w.log) : w.log[j].op = "open"}}

\* C15: no value that the listing yielded is the number of the listing
\* handle, and an open-mode iterator yields that number from neither strategy.
C15_HandleNotYielded ==
    iter.live =>
        \A h \in HandleNumbers :
            /\ \A i \in 1..iter.nlisted : yielded[i] # h
            /\ ~iter.b.possible => h \notin Range(yielded)

\* The listing has yielded a descriptor above its own handle: it has read
\* the handle's entry and passed over it.
C15_Witness ==
    /\ iter.live /\ iter.it.has_dir /\ iter.it.dir.dirfd >= 0
    /\ iter.nlisted >= 1 /\ yielded[iter.nlisted] > iter.it.dir.dirfd

\* What the next() calls to come yield, for the iterator the caller holds.
Rest == Drain(iter.it, w, e, iter.o, IntMax + 1)

\* C16: whenever size_hint() returns (low, Some(high)), low <= high and the
\* next() calls to come yield at least low and at most high values; its
\* debug assertion never fires.
C16_SizeHintBrackets ==
    (iter.live /\ ~w.panic) =>
        LET Brackets(h, n) ==
                /\ h.high.some /\ ~h.panic
                /\ h.low <= h.high.v
                /\ h.low <= n /\ n <= h.high.v IN
        Brackets(FdIter_size_hint(iter.it), Len(Rest))

\* The listing holds an entry in its buffer that it has not yielded yet, so
\* the lower bound is positive.
C16_Witness ==
    /\ iter.live /\ ~w.panic /\ iter.it.has_dir /\ Len(yielded) >= 1
    /\ FdIter_size_hint(iter.it).low >= 1

\* C17: once next() has returned None, size_hint() is (0, Some(0)) and
\* count() is 0, after the listing as after the scan.
C17_ExhaustedIsZero ==
    (iter.live /\ iter.ended /\ ~w.panic) =>
        /\ FdIter_size_hint(iter.it) = [low |-> 0, high |-> Some(0), panic |-> FALSE]
        /\ FdIter_count(iter.it, w, e, iter.o) = 0

\* An iterator is exhausted through its listing after it has yielded values,
\* and a descriptor was opened since.
C17_Witness ==
    /\ iter.live /\ iter.ended /\ ~w.panic /\ iter.it.has_dir
    /\ Len(yielded) >= 1 /\ iter.late # {}

\* C18: for the iterator as it stands, count() is the number of values the
\* next() calls to come yield, min() is the least and max() the greatest of
\* them (None when there is none).
C18_CountMinMax ==
    (iter.live /\ ~w.panic) =>
        LET Agree(r) ==
                /\ FdIter_count(iter.it, w, e, iter.o) = Len(r)
                /\ FdIter_min(iter.it, w, e, iter.o)
                      = IF r = <<>> THEN None ELSE Some(Min(Range(r)))
                /\ FdIter_max(iter.it, w, e, iter.o)
                      = IF r = <<>> THEN None ELSE Some(Max(Range(r))) IN
        Agree(Rest)

\* A possible-mode iterator without a listing, part-way through its scan,
\* with two values or more to come: count() takes the closed form.
C18_Witness ==
    /\ iter.live /\ ~w.panic /\ iter.b.possible /\ ~iter.it.has_dir
    /\ Len(yielded) >= 1 /\ Len(Rest) >= 2

\* ------------------------------------ an iterator with other threads running
\* What the other threads do during one next(): nothing, or one descriptor.
RaceSets(S) == {{}} \cup {{d} : d \in S}

\* FdIter::next while other threads open a descriptor (not at the number of
\* the listing handle) and close one, the listing handle included.
RaceNext ==
    /\ iter.live /\ ~iter.ended /\ ~w.panic
    /\ \E opens \in RaceSets(FreeFds(w, e) \ HandleNumbers),
          closes \in RaceSets(w.open) :
          \E r \in {FdIter_next(iter.it,
                                 [w EXCEPT !.race = [opens |-> opens, closes |-> closes]],
                                 e, iter.o)} :
          /\ w' = Raced(r.w)
          /\ iter' = [iter EXCEPT !.it = r.it, !.ended = ~r.val.some,
                                  !.nlisted = IF r.val.some /\ r.it.has_dir
                                               THEN @ + 1 ELSE @,
                                  !.opened = @ \cup opens,
                                  !.closed = @ \cup closes]
          /\ yielded' = IF r.val.some THEN Append(yielded, r.val.v) ELSE yielded
    /\ UNCHANGED <<e, call>>

\* One iterator, with threshold 0 or above the lowest descriptors.
RaceIterFrom == \E minfd \in PerFdMinFds : iter.gen = 0 /\ IterFromAt(minfd)
NextRace == RaceIterFrom \/ RaceNext
SpecRace == InitIter /\ [][NextRace]_vars

\* The descriptors at or above the threshold that were open when the
\* iterator was created and that no thread has closed since.
Stable == {d \in IPre.open : d >= ILo /\ d \notin iter.closed}

\* What the same iterator yields from the same descriptor table when no
\* thread opens or closes anything during the enumeration.
Undisturbed ==
    LET Run0(r) == Range(Drain(r.it, r.w, e, iter.o, IntMax + 1)) IN
    Run0(iter_from(iter.b, IPre, e, iter.o, iter.minfd))

\* C19: an exhausted iterator that does not use the descriptor count
\* (threadsafe(true); Linux has no such method) has yielded every descriptor
\* at or above the threshold that stayed open for the whole enumeration,
\* whatever other threads opened in the meantime.
C19_ThreadsafeOpensNoSkip ==
    (iter.live /\ iter.ended /\ ~w.panic /\ iter.opened # {} /\ iter.closed = {}
        /\ (HasNfds(e) => iter.b.skip_nfds))
        => Stable \subseteq Range(yielded)

\* C20: descriptors closed during the enumeration, in either mode, never keep
\* the iterator from yielding a descriptor that stayed open: every such
\* descriptor that the undisturbed enumeration yields is yielded.
C20_ClosesNoSkip ==
    (iter.live /\ iter.ended /\ ~w.panic /\ iter.closed # {} /\ iter.opened = {})
        => (Stable \cap Undisturbed) \subseteq Range(yielded)

\* ============================================= the helpers of util.rs alone
\* apply_range, simplify_keep_fds and check_should_keep called on their own,
\* as the tests of util.rs call them: thresholds over all of c_int, keep-lists
\* that may hold a negative entry and c_int::MAX.
UtilFds == (-1)..IntMax
UtilLists == SeqsUpTo(UtilFds, UtilKeepLen)
UtilSorted == {k \in UtilLists : IsSorted(k)}
ErrAts == (-1)..UtilKeepLen
TestOracle(debug, errAt) == Oracle(debug, "ok", -1) @@ [errAt |-> errAt]

\* apply_range(minfd, &keep_fds, |low, high| { record; Ok or Err }): the state
\* keeps the arguments, the recorded calls and the value returned.
UtilApplyRange ==
    /\ call.op = "none" /\ ~iter.live
    /\ \E minfd \in CInts, fds \in UtilSorted, errAt \in ErrAts, debug \in BOOLEAN :
       \E o \in {TestOracle(debug, errAt)} :
       \E r \in {apply_range("test", Fresh(w), e, o, minfd, fds)} :
          /\ debug => r.w.panic
          /\ w' = r.w
          /\ call' = [op |-> "apply_range", minfd |-> minfd, fds |-> fds,
                      as_sorted |-> TRUE, o |-> o, ok |-> r.ok]
    /\ UNCHANGED <<e, iter, yielded>>

\* simplify_keep_fds(keep_fds, fds_sorted, &mut minfd): the state keeps the
\* arguments, the slice returned and the threshold left in minfd.
UtilSimplify ==
    /\ call.op = "none" /\ ~iter.live
    /\ \E minfd \in CInts, fds \in UtilLists, fds_sorted, debug \in BOOLEAN :
       \E r \in {simplify_keep_fds(fds, fds_sorted, minfd, debug)} :
          /\ fds_sorted => IsSorted(fds)
          /\ debug => r.panic
          /\ w' = [w EXCEPT !.panic = r.panic]
          /\ call' = [op |-> "simplify", minfd |-> minfd, fds |-> fds,
                      as_sorted |-> fds_sorted, o |-> TestOracle(debug, -1),
                      keep_fds |-> r.keep_fds, newmin |-> r.minfd]
    /\ UNCHANGED <<e, iter, yielded>>

\* One enumeration with a keep-list: the cursor starts at the whole list.
UtilStartKeep ==
    /\ call.op = "none" /\ ~iter.live
    /\ \E fds \in UtilLists, fds_sorted \in BOOLEAN :
          /\ fds_sorted => IsSorted(fds)
          /\ call' = [op |-> "check", minfd |-> IntMin, fds |-> fds,
                      as_sorted |-> fds_sorted, o |-> TestOracle(FALSE, -1),
                      cur |-> fds, prev |-> fds, asked |-> <<>>, keep |-> FALSE]
    /\ UNCHANGED <<w, e, iter, yielded>>

\* check_should_keep(&mut keep_fds, fd, fds_sorted) for the next descriptor of
\* the enumeration, which is not below the one before.
UtilCheckKeep ==
    /\ call.op = "check" /\ Len(call.asked) < UtilKeepLen
    /\ \E fd \in UtilFds :
       \E r \in {check_should_keep(call.cur, fd, call.as_sorted)} :
          /\ call.asked # <<>> => fd >= call.asked[Len(call.asked)]
          /\ call' = [call EXCEPT !.cur = r.keep_fds, !.prev = call.cur,
                                  !.asked = Append(@, fd), !.keep = r.keep]
    /\ UNCHANGED <<w, e, iter, yielded>>

\* The helpers do not look at the process: one process, with nothing open.
InitUtil ==
    /\ e = [platform |-> "linux", fdlimit |-> FdMax + 1, kcr |-> FALSE, kcrc |-> FALSE]
    /\ w = [open |-> {}, cx |-> {}, mayCR |-> TRUE, mayCRC |-> TRUE,
            hasCR |-> 2, log |-> <<>>, panic |-> FALSE, race |-> NoRace]
    /\ call = NoCall
    /\ iter = NoIter
    /\ yielded = <<>>
NextUtil == UtilApplyRange \/ UtilSimplify \/ UtilStartKeep \/ UtilCheckKeep
SpecUtil == InitUtil /\ [][NextUtil]_vars

\* The calls the closure recorded, in the order they were made.
RECURSIVE RangesFrom(_, _)
RangesFrom(log, i) ==
    IF i > Len(log) THEN <<>>
    ELSE IF log[i].op = "range" THEN <<(<<log[i].a, log[i].b>>)>> \o RangesFrom(log, i + 1)
    ELSE RangesFrom(log, i + 1)
Recorded == RangesFrom(w.log, 1)

\* The ranges of section "gaps" for threshold t and sorted list k, over the
\* integers: [t, k0 - 1] when k0 > t, [k[i] + 1, k[i+1] - 1] for each pair at
\* least 2 apart, [k[n-1] + 1, MAX]; [t, MAX] alone when nothing is >= t.
RECURSIVE PairGaps(_, _)
PairGaps(k, i) ==
    IF i >= Len(k) THEN <<>>
    ELSE IF k[i + 1] - k[i] >= 2
    THEN <<(<<k[i] + 1, k[i + 1] - 1>>)>> \o PairGaps(k, i + 1)
    ELSE PairGaps(k, i + 1)
GapRanges(t, k) ==
    LET At(index) ==
            IF index = 0 THEN <<(<<t, IntMax>>)>>
            ELSE LET ks == From(k, index) IN
                 (IF ks[1] > t THEN <<(<<t, ks[1] - 1>>)>> ELSE <<>>)
                 \o PairGaps(ks, 1)
                 \o <<(<<ks[Len(ks)] + 1, IntMax>>)>> IN
    At(Position(k, t))
Covered(ranges) == UNION {ranges[i][1]..ranges[i][2] : i \in 1..Len(ranges)}

\* C21: for a sorted keep-list and a closure that never fails, apply_range
\* returns Ok after calling the closure on exactly the ranges of GapRanges, in
\* that order, and these cover exactly the integers of [t, MAX] outside the
\* keep-list.
C21_ApplyRangeGaps ==
    (call.op = "apply_range" /\ call.o.errAt = -1) =>
        /\ ~w.panic /\ call.ok
        /\ Recorded = GapRanges(call.minfd, call.fds)
        /\ Covered(Recorded) = {d \in call.minfd..IntMax : d \notin Range(call.fds)}

\* The descriptors an operation acts on for threshold t and keep-list k.
Targets(t, k) == {d \in CInts : d >= t /\ d \notin Range(k)}
IsSuffix(s, k) == \E i \in 1..(Len(k) + 1) : s = From(k, i)

\* C22: for a list flagged sorted, simplify_keep_fds returns a suffix of the
\* list and a threshold not below the given one that select the same
\* descriptors; for a list not flagged sorted it returns both unchanged.
C22_SimplifyEquivalent ==
    call.op = "simplify" =>
        IF call.as_sorted
        THEN /\ ~w.panic
             /\ IsSuffix(call.keep_fds, call.fds)
             /\ call.newmin >= call.minfd
             /\ Targets(call.newmin, call.keep_fds) = Targets(call.minfd, call.fds)
        ELSE call.keep_fds = call.fds /\ call.newmin = call.minfd

\* C23: within one enumeration (descriptors asked in non-decreasing order),
\* check_should_keep on a sorted list answers true exactly for the members of
\* the original list, and the cursor it leaves is the one it found less some
\* leading elements that are all below the descriptor asked; on a list not
\* flagged sorted it answers membership and leaves the cursor alone.
C23_CheckShouldKeep ==
    (call.op = "check" /\ call.asked # <<>>) =>
        LET fd == call.asked[Len(call.asked)]
            skipped == Len(call.prev) - Len(call.cur) IN
        /\ call.keep = (fd \in Range(call.fds))
        /\ IF call.as_sorted
           THEN /\ call.cur = From(call.prev, skipped + 1)
                /\ \A i \in 1..skipped : call.prev[i] < fd
           ELSE call.cur = call.fds /\ call.prev = call.fds

\* A sorted list of three, asked three times: the last lookup skipped an
\* element and found a member.
C23_Witness ==
    /\ call.op = "check" /\ call.as_sorted /\ Len(call.fds) = 3
    /\ Len(call.asked) = 3 /\ call.keep
    /\ Len(call.cur) < Len(call.prev) /\ Len(call.prev) < Len(call.fds)

AllRanges ==
    RangesFrom(apply_range("test", Fresh(w), e, TestOracle(call.o.debug, -1),
                           call.minfd, call.fds).w.log, 1)
FailedCalls == {i \in RangeCalls(w) : ~w.log[i].ok}

\* C25: when the closure fails, apply_range returns Err, the failing call is
\* the last one it made, and the calls before it are the ranges it starts
\* with when nothing fails; it returns Err for no other reason.
C25_FirstFailureEnds ==
    (call.op = "apply_range" /\ ~w.panic) =>
        /\ call.ok = (FailedCalls = {})
        /\ FailedCalls # {} =>
              LET Prefix(all) == /\ Len(Recorded) <= Len(all)
                                 /\ Recorded = SubSeq(all, 1, Len(Recorded)) IN
              /\ FailedCalls = {Len(w.log)}
              /\ Len(w.log) = call.o.errAt + 1
              /\ Prefix(AllRanges)

\* The closure failed after an earlier call had succeeded and with ranges
\* still to come.
C25_Witness ==
    /\ call.op = "apply_range" /\ ~w.panic /\ ~call.ok
    /\ call.o.errAt = 1 /\ Len(Recorded) = 2 /\ Len(AllRanges) >= 4

\* The bulk calls of the range shortcut: the syscalls made before the first
\* syscall that is not a bulk call.
BulkOps == {"close_range", "cloexec_range"}
ShortcutCalls == {i \in 1..Len(w.log) : \A m \in 1..i : w.log[m].op \in BulkOps}
\* A gap call failed after another one had succeeded.
LateFailure ==
    /\ call.op \in {"close", "cloexec"}
    /\ \E j \in ShortcutCalls : ~w.log[j].ok /\ \E i \in 1..(j - 1) : w.log[i].ok
\* The state every operation is meant to leave.
BulkFinal ==
    LET targets == {d \in Pre.open : d >= Lo /\ d \notin K} IN
    IF call.op = "close"
    THEN <<Pre.open \ targets, Pre.cx \ targets>>
    ELSE <<Pre.open, Pre.cx \cup targets>>
SimplifiedMin == simplify_keep_fds(call.fds, TRUE, Lo, FALSE).minfd

\* C26: when a gap call of the shortcut fails after an earlier gap call
\* succeeded, the operation goes on with the per-descriptor loop: apart from
\* its own listing handle it touches only descriptors at or above the
\* simplified threshold and outside the keep-list, it clears the capability flag on Linux, and it leaves the state
\* that the shortcut leaves when no call fails.
C26_LateFailureFallsBack ==
    LateFailure =>
        /\ ~w.panic
        /\ Final(w) = BulkFinal
        /\ e.platform = "linux" => IF call.op = "close" THEN ~w.mayCR ELSE ~w.mayCRC
        /\ \A m \in 1..Len(w.log) :
              (w.log[m].op \in {"close", "getfd", "setfd"}
                  /\ w.log[m].a \notin HandleNumbers) =>
                      w.log[m].a >= SimplifiedMin /\ w.log[m].a \notin K

\* The shortcut closed a gap, failed on a later call, and the loop then went
\* over the descriptors one by one.
C26_Witness ==
    /\ LateFailure /\ call.op = "close" /\ ~w.panic
    /\ \E i \in ShortcutCalls : w.log[i].ok /\ \E d \in Pre.open : d >= w.log[i].a /\ d <= w.log[i].b
    /\ \E m \in 1..Len(w.log) : w.log[m].op = "close" /\ ~w.log[m].ok

\* ------------------------------------ keep-lists under either label, any order
\* keep_fds_sorted() takes the caller's word for the order of the list, so the
\* builder is also explored with lists whose label is wrong.
LabelledCall(op) ==
    /\ call.op = "none" /\ ~iter.live /\ iter.gen = 0 /\ ~w.panic
    /\ \E minfd \in PerFdMinFds, fds \in KeepLists, as_sorted \in BOOLEAN,
          fs \in BOOLEAN, debug \in BOOLEAN :
          \E o \in Oracles(e, fs, debug) :
              Invoke(op, minfd, fds, as_sorted, FALSE, fs, o)
LabelledCloseFrom == LabelledCall("close")
LabelledCloexecFrom == LabelledCall("cloexec")
NextLabelled == LabelledCloseFrom \/ LabelledCloexecFrom
SpecLabelled == InitClamp /\ [][NextLabelled]_vars

\* The KeepFds of the last call, what simplify_keep_fds made of it, and the
\* shortcut that the operation tried before its loop.
KF == CloseFdsBuilder(call.fds, call.as_sorted, call.threadsafe, call.fs).keep_fds
Simplified == simplify_keep_fds(KF.fds, KF.sorted, Lo, FALSE)
Shortcut ==
    IF call.op = "close"
    THEN close_fds_shortcut(Pre, e, call.o, Simplified.minfd, Simplified.keep_fds,
                            KF.max, KF.sorted)
    ELSE IF e.platform = "linux"
    THEN set_cloexec_shortcut(Pre, e, call.o, Simplified.minfd, Simplified.keep_fds,
                              KF.max, KF.sorted)
    ELSE Err(Pre)
\* The last call went on to its loop; the log entries of the loop.
InLoop == call.op # "none" /\ ~w.panic /\ ~Shortcut.ok
LoopEntries == (Len(Shortcut.w.log) + 1)..Len(w.log)
\* Whether the loop may try a bulk operation: closefrom() always exists on
\* FreeBSD, Linux reads the flag that the shortcut left.
TailFlag ==
    IF call.op = "close"
    THEN e.platform = "freebsd" \/ Shortcut.w.mayCR
    ELSE e.platform = "linux" /\ Shortcut.w.mayCRC
TailOps == {"close_range", "cloexec_range", "closefrom"}
TailBulk == {i \in LoopEntries : w.log[i].op \in TailOps}
\* The loop's actions on descriptors above the largest kept one (a close() on
\* the number of the listing handle may be the iterator's own).
ActsAbove ==
    {m \in LoopEntries : /\ w.log[m].op \in {"close", "getfd"}
                         /\ w.log[m].a > KF.max
                         /\ w.log[m].a \notin HandleNumbers}
Acted(d) == IF call.op = "close" THEN d \notin w.open ELSE d \in w.cx

\* C27: in the loop there is at most one bulk operation, over [fd, MAX] with
\* fd above the largest kept descriptor, and none when the flag is not
\* available; after a successful one the loop acts on no descriptor; a
\* descriptor above the largest kept one is acted on one by one only when the
\* flag is unavailable or after the bulk operation on the first of them
\* failed, and from then on every open descriptor within the scan bound is
\* closed (or flagged), whether the keep-list names it or not.
C27_TailBulkOnce ==
    InLoop =>
        /\ Cardinality(TailBulk) <= 1
        /\ ~TailFlag => TailBulk = {}
        /\ \A i \in TailBulk :
              /\ w.log[i].a > KF.max
              /\ w.log[i].op = "closefrom" \/ w.log[i].b = UintMax
              /\ \A m \in LoopEntries :
                    (m < i /\ w.log[m].op \in {"close", "getfd"}
                           /\ w.log[m].a \notin HandleNumbers) =>
                        w.log[m].a < w.log[i].a /\ w.log[m].a <= KF.max
              /\ w.log[i].ok =>
                    \A m \in LoopEntries :
                        m > i => w.log[m].op = "close" /\ w.log[m].a \in HandleNumbers
              /\ ~w.log[i].ok =>
                    /\ i < Len(w.log)
                    /\ w.log[i + 1].op \in {"close", "getfd"}
                    /\ w.log[i + 1].a = w.log[i].a
        /\ \A m \in ActsAbove :
              /\ TailFlag => \E i \in TailBulk : i < m /\ ~w.log[i].ok
              /\ \A d \in Pre.open :
                    (d > w.log[m].a /\ d <= ClampedLimit(e.fdlimit)) => Acted(d)

\* A bulk operation on the first descriptor above the keep-list failed, that
\* descriptor and a later one were then closed one by one.
C27_Witness ==
    /\ InLoop /\ call.op = "close" /\ KF.max >= 0
    /\ \E i \in TailBulk :
          /\ ~w.log[i].ok
          /\ w.log[i + 1].op = "close" /\ w.log[i + 1].ok
          /\ \E m \in ActsAbove : m > i + 1 /\ w.log[m].ok

\* The whole-range shortcut applies to the last call: no kept value reaches
\* the simplified threshold, and the bulk operation exists (closefrom() on
\* FreeBSD; on Linux the flag is set and the kernel has the call).
AllKeptBelow == \A k \in K : k < Simplified.minfd
BulkAvailable ==
    IF call.op = "close"
    THEN e.platform = "freebsd" \/ (Pre.mayCR /\ e.kcr)
    ELSE e.platform = "linux" /\ Pre.mayCRC /\ e.kcrc

\* C28: when no kept value reaches the simplified threshold and the bulk
\* operation is available, the whole operation is one successful bulk call
\* over [threshold, MAX]: no listing handle, no per-descriptor action, and
\* every descriptor from the threshold up is closed (or flagged).
C28_WholeRangeShortcut ==
    (call.op # "none" /\ ~call.o.debug /\ AllKeptBelow /\ BulkAvailable) =>
        /\ ~w.panic
        /\ Len(w.log) = 1
        /\ w.log[1].op \in TailOps /\ w.log[1].ok
        /\ w.log[1].a = Simplified.minfd
        /\ w.log[1].op = "closefrom" \/ w.log[1].b = UintMax
        /\ w.open = (IF call.op = "close" THEN {d \in Pre.open : d < Simplified.minfd}
                     ELSE Pre.open)
        /\ w.cx = (IF call.op = "close" THEN {d \in Pre.cx : d < Simplified.minfd}
                   ELSE Pre.cx \cup {d \in Pre.open : d >= Simplified.minfd})

\* One close_range() closed two descriptors above a keep-list of two entries
\* below the threshold, with the descriptor directory allowed.
C28_Witness ==
    /\ call.op = "close" /\ ~call.o.debug /\ AllKeptBelow /\ BulkAvailable
    /\ e.platform = "linux" /\ call.fs /\ Len(call.fds) = 2
    /\ Len(w.log) = 1 /\ w.log[1].op = "close_range"
    /\ Cardinality(Pre.open \ w.open) >= 2

\* The bulk range calls of the last operation, as the kernel received them
\* (two unsigned values).
BulkCalls == {i \in 1..Len(w.log) : w.log[i].op \in BulkOps}

\* C29: no arithmetic of close_open_fds overflows (a build with overflow
\* checks does not panic), and every bulk range call it issues has
\* 0 <= low <= high with low a descriptor number.
C29_RangesWellFormed ==
    IsCloseOpenFds =>
        /\ ~w.panic
        /\ \A i \in BulkCalls :
              /\ 0 <= w.log[i].a /\ w.log[i].a <= w.log[i].b
              /\ w.log[i].a <= IntMax

\* The last call handed keep_fds_sorted() a list that is not ascending.
Mislabelled == call.op # "none" /\ call.as_sorted /\ ~IsSorted(call.fds)

\* C30: a call whose keep-list is labelled sorted and is not returns without
\* a panic or a failed assertion, and leaves every descriptor below the
\* threshold as it was.
C30_MislabelledCompletes ==
    Mislabelled =>
        /\ ~w.panic
        /\ \A d \in Pre.open :
              d < Lo => d \in w.open /\ (d \in w.cx <=> d \in Pre.cx)

\* The first integers of the maximal runs of integers of [t, MAX] that are
\* not in the keep-list k.
RunStarts(t, k) ==
    {d \in t..IntMax : d \notin Range(k) /\ (d = t \/ (d - 1) \in Range(k))}

\* C31: for a sorted keep-list (duplicates and adjacent entries included) and
\* a closure that never fails, every range apply_range calls is non-empty,
\* two consecutive calls have a kept value strictly between them, and there
\* are as many calls as maximal runs of non-kept integers in [t, MAX].
C31_MinimalRanges ==
    (call.op = "apply_range" /\ call.o.errAt = -1) =>
        /\ ~w.panic
        /\ \A i \in 1..Len(Recorded) : Recorded[i][1] <= Recorded[i][2]
        /\ \A i \in 1..(Len(Recorded) - 1) :
              \E k \in Range(call.fds) :
                  Recorded[i][2] < k /\ k < Recorded[i + 1][1]
        /\ Len(Recorded) = Cardinality(RunStarts(call.minfd, call.fds))

\* ------------------------------------------------------ inspect_keep_fds alone
\* inspect_keep_fds(&keep_fds) on lists over the least and greatest c_int,
\* -1, 0 and 1, as test_inspect_keep_fds calls it.
InspectFds == {IntMin, -1, 0, 1, IntMax}
InspectLists == SeqsUpTo(InspectFds, UtilKeepLen)
UtilInspect ==
    /\ call.op = "none" /\ ~iter.live
    /\ \E fds \in InspectLists :
       \E r \in {inspect_keep_fds(fds)} :
          call' = [op |-> "inspect", minfd |-> 0, fds |-> fds, as_sorted |-> FALSE,
                   o |-> TestOracle(FALSE, -1), max |-> r.max, sorted |-> r.sorted]
    /\ UNCHANGED <<w, e, iter, yielded>>
NextInspect == UtilInspect
SpecInspect == InitUtil /\ [][NextInspect]_vars

CallsOf(log, op) == {i \in 1..Len(log) : log[i].op = op}
FailedOf(log, op) == {i \in CallsOf(log, op) : ~log[i].ok}

\* C33: on Linux, a closefrom() or cloexecfrom() call in which a bulk range
\* call failed leaves that operation's flag cleared, and a call that starts
\* with the flag cleared issues no such bulk call: its log holds only the
\* listing handle and per-descriptor actions.
C33_DowngradedForGood ==
    [][(e.platform = "linux" /\ call'.op \in {"close", "cloexec"}) =>
          /\ FailedOf(w'.log, "close_range") # {} => ~w'.mayCR
          /\ FailedOf(w'.log, "cloexec_range") # {} => ~w'.mayCRC
          /\ ~w.mayCR => CallsOf(w'.log, "close_range") = {}
          /\ ~w.mayCRC => CallsOf(w'.log, "cloexec_range") = {}
          /\ ((call'.op = "close" /\ ~w.mayCR) \/ (call'.op = "cloexec" /\ ~w.mayCRC)) =>
                \A i \in 1..Len(w'.log) :
                    w'.log[i].op \in {"open", "close", "getfd", "setfd"}]_vars

\* Both flags are cleared, and a cloexecfrom() call flagged a descriptor on
\* its own without a bulk call.
C33_Witness ==
    /\ e.platform = "linux" /\ ~w.mayCR /\ ~w.mayCRC /\ call.op = "cloexec"
    /\ CallsOf(w.log, "cloexec_range") = {}
    /\ \E i \in CallsOf(w.log, "setfd") : w.log[i].ok

\* C34: on FreeBSD no step issues close_range() unless HAS_CLOSE_RANGE says
\* "present" (so the process is never killed by SIGSYS), and once
\* HAS_CLOSE_RANGE holds an answer no step changes it, whatever the sysctl
\* would say if it were asked again.
C34_ProbedOnce ==
    [][e.platform = "freebsd" =>
          /\ CallsOf(w'.log, "close_range") # {} => w'.hasCR = 1
          /\ CallsOf(w'.log, "SIGSYS") = {} /\ ~w'.panic
          /\ w.hasCR \in {0, 1} => w'.hasCR = w.hasCR]_vars

\* The sysctl failed when the probe ran on a kernel that has close_range():
\* the answer "absent" is kept, and a closefrom() call with a sorted keep-list
\* went through its loop to closefrom() without a ranged close.
C34_Witness ==
    /\ e.platform = "freebsd" /\ e.kcr /\ w.hasCR = 0 /\ call.op = "close"
    /\ CallsOf(w.log, "close_range") = {}
    /\ CallsOf(w.log, "close") # {} /\ CallsOf(w.log, "closefrom") # {}

\* ------------------------------- two threads in set_fds_cloexec on Linux
\* Each thread's call is cut at its loads of MAY_HAVE_CLOSE_RANGE_CLOEXEC: the
\* load in set_cloexec_shortcut, the shortcut's syscalls (a failure stores
\* false), the load in set_cloexec_rest, the loop. Between the steps of one
\* thread the other may run, so a thread may act on a value of the flag that
\* the other has cleared since. call.th holds each thread's arguments, its
\* position and the value of the flag it loaded last; call.pre the process
\* before the two calls.
Threads == {1, 2}
ConcKeepLists == {<<>>, <<3, 1>>, <<1, IntMax>>}
EnvsConc == {x \in Envs : x.platform = "linux" /\ x.kcr = x.kcrc}
InitConc == InitWith(EnvsConc, 0)

ThKeepFds(th) == KeepFds_new(th.fds)
ThSimplified(th) ==
    simplify_keep_fds(ThKeepFds(th).fds, ThKeepFds(th).sorted,
                      IF th.minfd > 0 THEN th.minfd ELSE 0, FALSE)
\* The process as a thread sees it: the flag has the value the thread loaded.
Seen(th) == [Fresh(w) EXCEPT !.mayCRC = th.seen]
\* A store of false by the step whose result is w1 clears the shared flag.
Stored(w1) == [Fresh(w1) EXCEPT !.mayCRC = w.mayCRC /\ w1.mayCRC]

ConcStart ==
    /\ call.op = "none" /\ ~iter.live /\ ~w.panic
    /\ \E minfds \in [Threads -> PerFdMinFds], lists \in [Threads -> ConcKeepLists],
          fss \in [Threads -> BOOLEAN] :
          call' = [op |-> "conc", minfd |-> 0, fds |-> <<>>, as_sorted |-> FALSE,
                   o |-> Oracle(FALSE, "ok", -1), pre |-> {Fresh(w)},
                   th |-> [t \in Threads |->
                             [pc |-> "load", minfd |-> minfds[t], fds |-> lists[t],
                              fs |-> fss[t], seen |-> TRUE, stale |-> FALSE,
                              failed |-> FALSE]]]
    /\ w' = Fresh(w)
    /\ UNCHANGED <<e, iter, yielded>>

\* MAY_HAVE_CLOSE_RANGE_CLOEXEC.load(Ordering::Relaxed) in set_cloexec_shortcut
\* (pc "load") or in set_cloexec_rest (pc "load2").
ConcLoad(t) ==
    /\ call.op = "conc" /\ call.th[t].pc \in {"load", "load2"}
    /\ call' = [call EXCEPT !.th[t].seen = w.mayCRC,
                            !.th[t].pc = IF call.th[t].pc = "load" THEN "shortcut"
                                         ELSE "loop"]
    /\ UNCHANGED <<w, e, iter, yielded>>

\* The rest of set_cloexec_shortcut with the value loaded.
ConcShortcut(t) ==
    /\ call.op = "conc" /\ call.th[t].pc = "shortcut"
    /\ LET th == call.th[t]
           sm == ThSimplified(th) IN
       \E r \in {set_cloexec_shortcut(Seen(th), e, call.o, sm.minfd, sm.keep_fds,
                                      ThKeepFds(th).max, ThKeepFds(th).sorted)} :
          /\ w' = Stored(r.w)
          /\ call' = [call EXCEPT
                        !.th[t].pc = IF r.ok THEN "done" ELSE "load2",
                        !.th[t].stale = @ \/ (th.seen /\ ~w.mayCRC),
                        !.th[t].failed = @ \/ (th.seen /\ ~r.ok)]
    /\ UNCHANGED <<e, iter, yielded>>

\* itbuilder.possible(true), iter_from(minfd) and the loop, with the value
\* loaded for set_cloexec_rest.
ConcLoop(t) ==
    /\ call.op = "conc" /\ call.th[t].pc = "loop"
    /\ LET th == call.th[t]
           sm == ThSimplified(th)
           b == [Builder(FALSE, FALSE, th.fs) EXCEPT !.possible = TRUE]
           Loop(c) == cloexec_loop(c.it, c.w, e, call.o, sm.keep_fds,
                                   ThKeepFds(th).max, ThKeepFds(th).sorted) IN
       \E w1 \in {Loop(iter_from(b, Seen(th), e, call.o, sm.minfd))} :
          /\ w' = Stored(w1)
          /\ call' = [call EXCEPT
                        !.th[t].pc = "done",
                        !.th[t].stale = @ \/ (th.seen /\ ~w.mayCRC),
                        !.th[t].failed =
                            @ \/ (\E i \in 1..Len(w1.log) :
                                     w1.log[i].op = "cloexec_range" /\ ~w1.log[i].ok)]
    /\ UNCHANGED <<e, iter, yielded>>

ConcLoads == \E t \in Threads : ConcLoad(t)
ConcShortcuts == \E t \in Threads : ConcShortcut(t)
ConcLoops == \E t \in Threads : ConcLoop(t)
NextConc == ConcStart \/ ConcLoads \/ ConcShortcuts \/ ConcLoops
SpecConc == InitConc /\ [][NextConc]_vars

\* The descriptors a thread's call has to flag.
ThTargets(th) ==
    {d \in Pre.open : d >= (IF th.minfd > 0 THEN th.minfd ELSE 0)
                      /\ d \notin Range(th.fds)}
BothDone == call.op = "conc" /\ \A t \in Threads : call.th[t].pc = "done"

\* C35: whatever the interleaving of two set_fds_cloexec calls, when both
\* have returned every target of either call is flagged, nothing is closed
\* or left open, and no other descriptor has a flag it did not have.
C35_ConcurrentPostcondition ==
    BothDone =>
        /\ ~w.panic
        /\ w.open = Pre.open
        /\ \A t \in Threads : ThTargets(call.th[t]) \subseteq w.cx
        /\ w.cx \subseteq Pre.cx \cup UNION {ThTargets(call.th[t]) : t \in Threads}

\* ------------------------------------------------------ nfds_to_maxfd alone
\* nfds_to_maxfd(nfds) in a process with any descriptors open, for the count
\* the kernel reports (the number of open descriptors), a failed query (-1)
\* and counts that are off.
NfdsCounts == (-1)..(FdMax + 1)
EnvsNfds == {x \in Envs : HasNfds(x)}
InitNfds == InitWith(EnvsNfds, 0)
NfdsToMaxfd ==
    /\ call.op = "none" /\ ~iter.live
    /\ \E n \in NfdsCounts :
          call' = [op |-> "nfds", minfd |-> 0, fds |-> <<>>, as_sorted |-> FALSE,
                   o |-> Oracle(FALSE, "ok", -1), n |-> n,
                   result |-> nfds_to_maxfd(w, n),
                   checks |-> IF n > 0 /\ n < NFDS_GIVE_UP
                              THEN nfds_checks(w, n, 0, 0) ELSE 0]
    /\ UNCHANGED <<w, e, iter, yielded>>
NextNfds == NfdsToMaxfd
SpecNfds == InitNfds /\ [][NextNfds]_vars

LimitValues ==
    {-1, 0, OPEN_MAX_FLOOR - 1, OPEN_MAX_FLOOR, OPEN_MAX_CEIL, OPEN_MAX_CEIL + 1,
     UintMax}
EnvsLimit ==
    [platform : Platforms, fdlimit : LimitValues, kcr : {FALSE}, kcrc : {FALSE}]
InitLimit == InitWith(EnvsLimit, 0)
LimitIterFrom == IterFromAt(0)
NextLimit == LimitIterFrom \/ IterNext \/ IterDrop
SpecLimit == InitLimit /\ [][NextLimit]_vars

\* The iterator has a scan bound and it did not come from the descriptor count.
FromLimit == iter.live /\ iter.it.maxfd >= 0 /\ (~HasNfds(e) \/ iter.it.skip_nfds)

TermMinFds == {-1, 0, 2, IntMax}
TermKeepLists == {<<>>, <<1>>, <<3, 1>>, <<1, IntMax>>}
TermIterFrom == \E minfd \in TermMinFds : IterFromAt(minfd)
TermCall(op) ==
    /\ call.op = "none" /\ ~iter.live /\ iter.gen = 0 /\ ~w.panic
    /\ \E minfd \in TermMinFds, fds \in TermKeepLists, as_sorted \in BOOLEAN,
          fs \in BOOLEAN, debug \in BOOLEAN :
          \E o \in Oracles(e, fs, debug) :
              Invoke(op, minfd, fds, as_sorted, FALSE, fs, o)
TermCloseFrom == TermCall("close")
TermCloexecFrom == TermCall("cloexec")
NextTerm == TermIterFrom \/ IterNext \/ IterDrop \/ TermCloseFrom \/ TermCloexecFrom
\* ENABLED <<IterNext>>_vars as a state predicate: a next() call is possible
\* and changes the state.
CanAdvance ==
    /\ iter.live /\ ~w.panic
    /\ \E debug \in BOOLEAN :
          \E r \in {FdIter_next(iter.it, w, e, [iter.o EXCEPT !.debug = debug])} :
             /\ debug => r.w.panic
             /\ (r.w # w \/ r.it # iter.it \/ r.val.some \/ ~iter.ended)
\* The caller of an iterator keeps calling next(): weak fairness of IterNext,
\* WF_vars(IterNext), written with CanAdvance for its ENABLED.
SpecTerm ==
    InitClamp /\ [][NextTerm]_vars /\ ([]<>~CanAdvance \/ []<><<IterNext>>_vars)

\* An iterator that never read an entry of the descriptor directory.
ScanMode == iter.live /\ iter.nlisted = 0 /\ iter.it.maxfd >= 0
ScanRoom == IF iter.it.maxfd + 1 > ILo THEN iter.it.maxfd + 1 - ILo ELSE 0
\* What one operation may log: a bulk call per gap of the keep-list and one
\* for the tail, two calls (F_GETFD, F_SETFD) per descriptor it looks at, those
\* being the open ones and the listing handle, and the handle's open and close.
ActionBudget == (Len(call.fds) + 1) + 2 * (Cardinality(Pre.open) + 1) + 3

\* C38: in scan mode an enumeration yields at most bound + 1 - threshold
\* values; every next() that yields moves the cursor forward; an iterator that
\* keeps being called is exhausted; closefrom and cloexecfrom stop within a
\* number of descriptor actions fixed by the keep-list and the open set.
C38_Terminates ==
    /\ [](ScanMode => Len(yielded) <= ScanRoom)
    /\ [](call.op \in {"close", "cloexec"} => Len(w.log) <= ActionBudget)
    /\ [][(iter.live /\ iter'.live /\ Len(yielded') > Len(yielded))
            => iter'.it.curfd > iter.it.curfd]_vars
    /\ (iter.live ~> (iter.ended \/ ~iter.live))

\* A scan that was exhausted after yielding every number up to its bound.
C38_Witness ==
    /\ ScanMode /\ iter.ended /\ ScanRoom > 1 /\ Len(yielded) = ScanRoom

\* ------------------------------------------------------ the iterator's frame
\* The descriptors open when the iterator the caller holds was created,
\* together with those the caller has opened itself since.
OpenBefore == IPre.open \cup iter.late
\* The open() and close() calls the iterator has made.
IterOpens == {i \in 1..Len(w.log) : w.log[i].op = "open"}
IterCloses == {i \in 1..Len(w.log) : w.log[i].op = "close"}

\* C39: an iterator opens at most one descriptor, its listing handle, and
\* closes nothing else; while it lives the open set is the one before its
\* creation plus at most that handle; once it is exhausted, once it has given
\* up the listing, and after it is dropped, the open set is as before.
C39_IterFrame ==
    /\ [](iter.live =>
            /\ Cardinality(IterOpens) <= 1
            /\ \A j \in IterCloses : \E i \in IterOpens :
                  i < j /\ w.log[i].a = w.log[j].a /\ w.log[j].ok
            /\ Cardinality(IterCloses) <= Cardinality(IterOpens)
            /\ \A i \in 1..Len(w.log) : w.log[i].op \in {"open", "close"}
            /\ w.open \ HandleNumbers = OpenBefore \ HandleNumbers
            /\ (iter.ended \/ ~iter.it.has_dir) => w.open = OpenBefore)
    /\ [][(iter.live /\ ~iter'.live) => w'.open = OpenBefore]_vars

\* A listing was read to its end, the handle it had open is closed again, and
\* the open set is the one before the iterator was created.
C39_Witness ==
    /\ iter.live /\ IterOpens # {} /\ IterCloses # {} /\ w.open = OpenBefore
    /\ iter.ended /\ iter.nlisted > 0 /\ IPre.open # {}

\* ------------------------------------------------------ the simplified list
\* C40: after simplify_keep_fds on a sorted keep-list either the list is
\* empty and the maximum of the keep-list is below the new minfd, or its first
\* element is above the new minfd; so close_fds_shortcut reaches its branch
\* for the gaps with a non-empty list only, and the operation does not panic.
C40_SimplifiedShape ==
    (call.op = "close" /\ call.as_sorted) =>
        /\ \/ Simplified.keep_fds = <<>> /\ KF.max < Simplified.minfd
           \/ Simplified.keep_fds # <<>> /\ Simplified.keep_fds[1] > Simplified.minfd
        /\ ~w.panic
====
